---- MODULE Spec2Model ----
(***************************************************************************)
(* Model of the mocking engine of graphql-tools (mock.ts): the recursive   *)
(* mock resolver mockType, MockList, the step-1 merge (mergeMocks), the    *)
(* preserve-mode merge (copyOwnProps), the fallback abstract-type resolver *)
(* and the field installer of addMockFunctionsToSchema.                    *)
(*                                                                         *)
(* JavaScript values are records tagged by k.  A resolution is a function  *)
(* of (root, args, context) and of an evaluation state st that carries the *)
(* stream of Math.random() draws and the log of the calls made so far; it  *)
(* yields [v |-> value or thrown error, st |-> state after].               *)
(***************************************************************************)
EXTENDS Integers, Sequences, FiniteSets, TLC

(***************************************************************************)
(* Bounds of the model.                                                    *)
(***************************************************************************)
\* number of Math.random() draws chosen per field invocation; later draws
\* of the same invocation repeat the stream
MaxDraws == 2
\* Math.random() yields d / RandDen for d in 0 .. RandDen - 1
RandDen == 3

(***************************************************************************)
(* JavaScript values.                                                      *)
(***************************************************************************)
EmptyProps == [key \in {} |-> 0]

Undefined == [k |-> "undefined"]
Null == [k |-> "null"]
Num(n) == [k |-> "number", n |-> n, den |-> 1]
Frac(n, d) == [k |-> "number", n |-> n, den |-> d]
Str(s) == [k |-> "string", s |-> s]
Bool(b) == [k |-> "boolean", b |-> b]

\* a property descriptor: value and enumerable flag
Prop(val, enum) == [v |-> val, e |-> enum]

Fn(len, body) == [k |-> "function", len |-> len, body |-> body, p |-> EmptyProps]
NativeFn == Fn(1, [op |-> "native"])

ObjectPrototype ==
  [k |-> "object", p |-> ("constructor" :> Prop(NativeFn, FALSE)), proto |-> Null]

\* an object with own property descriptors p and prototype proto
Object(p, proto) == [k |-> "object", p |-> p, proto |-> proto]
\* an object literal { key: value, ... }
Lit(f) == Object([key \in DOMAIN f |-> Prop(f[key], TRUE)], ObjectPrototype)
EmptyObject == Object(EmptyProps, ObjectPrototype)

Array(els) == [k |-> "array", els |-> els, p |-> EmptyProps]
Promise(state, val) == [k |-> "promise", state |-> state, val |-> val, p |-> EmptyProps]
\* a GraphQL named type object of the schema
GType(name) == [k |-> "type", name |-> name, p |-> EmptyProps]
\* a thrown exception
Throw(err, msg) == [k |-> "throw", err |-> err, s |-> msg]
IsThrow(v) == v.k = "throw"

MockListPrototype ==
  [k |-> "object",
   p |-> [constructor |-> Prop(NativeFn, FALSE), mock |-> Prop(NativeFn, FALSE),
          randint |-> Prop(NativeFn, FALSE)],
   proto |-> ObjectPrototype]

Digits == <<"0", "1", "2", "3", "4", "5", "6", "7", "8", "9">>

ObjectLike == {"object", "array", "function", "MockList", "promise", "type", "boxed"}

\* typeof v
TypeOf(v) ==
  CASE v.k = "undefined" -> "undefined"
    [] v.k = "function" -> "function"
    [] v.k \in {"number", "string", "boolean"} -> v.k
    [] OTHER -> "object"

\* ToBoolean(v)
Truthy(v) ==
  CASE v.k \in {"undefined", "null"} -> FALSE
    [] v.k = "boolean" -> v.b
    [] v.k = "number" -> v.n # 0
    [] v.k = "string" -> v.s # ""
    [] OTHER -> TRUE

\* the own properties of a value, as a map from key to descriptor
OwnProps(v) ==
  CASE v.k \in {"object", "boxed", "promise"} -> v.p
    [] v.k = "array" ->
         v.p @@ [key \in {Digits[i] : i \in 1..Len(v.els)} |->
                   Prop(v.els[CHOOSE i \in 1..Len(v.els) : Digits[i] = key], TRUE)]
             @@ ("length" :> Prop(Num(Len(v.els)), FALSE))
    [] v.k = "function" -> v.p @@ ("length" :> Prop(Num(v.len), FALSE))
    [] v.k = "MockList" ->
         v.p @@ ("len" :> Prop(v.len, TRUE))
             @@ (IF v.wrappedFunction.k = "undefined" THEN EmptyProps
                 ELSE ("wrappedFunction" :> Prop(v.wrappedFunction, TRUE)))
    [] v.k = "type" -> v.p @@ ("name" :> Prop(Str(v.name), TRUE))
    [] OTHER -> EmptyProps

\* Object.getPrototypeOf(v)
GetPrototypeOf(v) ==
  CASE v.k = "object" -> v.proto
    [] v.k = "MockList" -> MockListPrototype
    [] v.k \in ObjectLike -> ObjectPrototype
    [] OTHER -> Null

\* Object.keys(v): the own enumerable keys
Keys(v) == {key \in DOMAIN OwnProps(v) : OwnProps(v)[key].e}

RECURSIVE GetProp(_, _)
\* v[key]: the property looked up along the prototype chain
GetProp(v, key) ==
  IF v.k \notin ObjectLike THEN Undefined
  ELSE IF key \in DOMAIN OwnProps(v) THEN OwnProps(v)[key].v
  ELSE GetProp(GetPrototypeOf(v), key)

RECURSIVE HasProp(_, _)
\* key in v
HasProp(v, key) ==
  IF v.k \notin ObjectLike THEN FALSE
  ELSE key \in DOMAIN OwnProps(v) \/ HasProp(GetPrototypeOf(v), key)

\* the value with its own named properties replaced by p
WithProps(v, p) == [v EXCEPT !.p = p]

\* Object.assign(target, source)
ObjectAssign(target, source) ==
  IF target.k \in {"undefined", "null"}
  THEN Throw("TypeError", "Cannot convert undefined or null to object")
  ELSE LET t == IF target.k \in ObjectLike THEN target
                ELSE [k |-> "boxed", prim |-> target, p |-> EmptyProps]
           src == IF source.k \in ObjectLike THEN source ELSE EmptyObject
           set == [key \in Keys(src) |->
                     Prop(OwnProps(src)[key].v,
                          IF key \in DOMAIN OwnProps(t) THEN OwnProps(t)[key].e ELSE TRUE)]
       IN WithProps(t, set @@ t.p)

(***************************************************************************)
(* The schema: the type system of the test suite's shorthand schema.       *)
(***************************************************************************)
Named(name) == [w |-> "named", name |-> name]
List(t) == [w |-> "list", ofType |-> t]
NonNull(t) == [w |-> "nonnull", ofType |-> t]
\* what type.ofType yields on a type without wrapper, and the type of no type
UndefinedType == [w |-> "undefined"]

ScalarTypes == {"Int", "Float", "String", "Boolean", "ID", "MissingMockType"}
ObjectTypes == {"Bird", "Bee", "RootQuery", "RootMutation"}
\* Pollinator is a union the schema declares and no field has as its type
UnionTypes == {"BirdsAndBees", "Pollinator"}
InterfaceTypes == {"Flying"}
EnumTypes == {"SomeEnum"}
AbstractTypes == UnionTypes \cup InterfaceTypes
TypeNames == ScalarTypes \cup ObjectTypes \cup UnionTypes \cup InterfaceTypes \cup EnumTypes

\* union.getTypes()
getTypes(name) == <<"Bird", "Bee">>
\* schema.getPossibleTypes(interface)
getPossibleTypes(name) == <<"Bird", "Bee">>
\* enum.getValues(), each with its underlying value
getValues(name) ==
  <<[name |-> "A", value |-> Str("A")], [name |-> "B", value |-> Str("B")],
    [name |-> "C", value |-> Str("C")]>>
\* schema.getQueryType() and schema.getMutationType()
getQueryType == "RootQuery"
getMutationType == "RootMutation"

\* type.getFields(): the declared type of every field of the object types
getFields(typeName) ==
  CASE typeName = "RootQuery" ->
         [returnInt |-> Named("Int"),
          returnFloat |-> Named("Float"),
          returnString |-> Named("String"),
          returnBoolean |-> Named("Boolean"),
          returnID |-> Named("ID"),
          returnEnum |-> Named("SomeEnum"),
          returnBirdsAndBees |-> List(Named("BirdsAndBees")),
          returnFlying |-> List(Named("Flying")),
          returnMockError |-> Named("MissingMockType"),
          returnNonNullString |-> NonNull(Named("String")),
          returnObject |-> Named("Bird"),
          returnListOfInt |-> List(Named("Int")),
          returnListOfIntArg |-> List(Named("Int")),
          returnListOfListOfInt |-> NonNull(List(NonNull(List(NonNull(Named("Int")))))),
          returnListOfListOfObject |-> NonNull(List(List(NonNull(Named("Bird"))))),
          returnStringArgument |-> Named("String")]
    [] typeName = "RootMutation" -> [returnStringArgument |-> Named("String")]
    [] typeName = "Bird" ->
         [returnInt |-> Named("Int"), returnString |-> Named("String"),
          returnStringArgument |-> Named("String")]
    [] typeName = "Bee" -> [returnInt |-> Named("Int"), returnEnum |-> Named("SomeEnum")]
    [] OTHER -> EmptyProps

\* the order in which forEachField visits the fields: the object types in the
\* order of schema.getTypeMap(), the fields of each in declaration order
FieldOrder ==
  <<<<"RootQuery", "returnInt">>, <<"RootQuery", "returnFloat">>,
    <<"RootQuery", "returnString">>, <<"RootQuery", "returnBoolean">>,
    <<"RootQuery", "returnID">>, <<"RootQuery", "returnEnum">>,
    <<"RootQuery", "returnBirdsAndBees">>, <<"RootQuery", "returnFlying">>,
    <<"RootQuery", "returnMockError">>, <<"RootQuery", "returnNonNullString">>,
    <<"RootQuery", "returnObject">>, <<"RootQuery", "returnListOfInt">>,
    <<"RootQuery", "returnListOfIntArg">>, <<"RootQuery", "returnListOfListOfInt">>,
    <<"RootQuery", "returnListOfListOfObject">>, <<"RootQuery", "returnStringArgument">>,
    <<"Bird", "returnInt">>, <<"Bird", "returnString">>,
    <<"Bird", "returnStringArgument">>,
    <<"Bee", "returnInt">>, <<"Bee", "returnEnum">>,
    <<"RootMutation", "returnStringArgument">>>>

\* the fields forEachField visits, as <<typeName, fieldName>>
FieldIds == {FieldOrder[i] : i \in 1..Len(FieldOrder)}

\* the fields of schema.getTypeMap() that belong to no object type of the
\* user: the one of the interface Flying and those of the introspection types
OtherFieldOrder ==
  <<<<"Flying", "returnInt">>, <<"__Schema", "types">>, <<"__Type", "name">>>>
\* Object.keys(typeMap) and Object.keys(fields): every field of the type map
TypeMapFieldOrder == FieldOrder \o OtherFieldOrder
TypeMapFieldIds == {TypeMapFieldOrder[i] : i \in 1..Len(TypeMapFieldOrder)}
\* type instanceof GraphQLObjectType
IsObjectType(typeName) == typeName \in ObjectTypes \cup {"__Schema", "__Type"}
\* name.startsWith('__')
startsWith__(name) == IF Len(name) < 2 THEN FALSE ELSE SubSeq(name, 1, 2) = "__"

\* field.type
FieldType(id) == getFields(id[1])[id[2]]

\* getNullableType(type): strips one NonNull wrapper
getNullableType(type) == IF type.w = "nonnull" THEN type.ofType ELSE type

RECURSIVE getNamedType(_)
\* getNamedType(type): strips every List and NonNull wrapper
getNamedType(type) ==
  IF type.w \in {"list", "nonnull"} THEN getNamedType(type.ofType) ELSE type

\* type.ofType, undefined on a type that is no wrapper
ofType(type) == IF type.w \in {"list", "nonnull"} THEN type.ofType ELSE UndefinedType

\* schema.getType(key): the key is coerced to a string, and a type object's
\* string form is its name
getType(key) ==
  LET name == CASE key.k = "type" -> key.name
                [] key.k = "string" -> key.s
                [] OTHER -> ""
  IN IF name \in TypeNames THEN GType(name) ELSE Undefined

(***************************************************************************)
(* State of the program.                                                   *)
(***************************************************************************)
VARIABLES
  phase,             \* "schema": built, no mocks yet; "mocked"; "failed": setup threw
  mockFunctionMap,   \* the registry: type name -> factory
  preserveResolvers, \* the Preserve flag
  resolve,           \* field.resolve of every field of every object type
  resolveType,       \* type.resolveType of every union and interface
  setupError,        \* what the setup call threw, or Undefined
  call,              \* the field invocation made last, or NoCall
  out,               \* what that invocation returned or threw
  trace,             \* the log of the calls that invocation made
  rootValue,         \* the root object of that invocation as the invocation left it
  inflight,          \* the two halves of a preserve-mode invocation awaiting fan-in
  concrete           \* what resolveType returned for the elements of out

\* the state of generateSchema and of a query run on the schema it made
VARIABLES
  jsSchema,          \* the schema generateSchema returned: field.resolve of its fields
  schemaError,       \* what generateSchema threw, or Undefined
  resolveFunctions,  \* the resolvers generateSchema was given
  forbidUndefinedInResolve, \* the flag generateSchema was given
  logger,            \* the logger generateSchema was given, with the errors it holds
  response           \* the data and the errors of the query so far

mockVars == <<phase, mockFunctionMap, preserveResolvers, resolve, resolveType, setupError,
              call, out, trace, rootValue, inflight, concrete>>
generatorVars == <<jsSchema, schemaError, resolveFunctions, forbidUndefinedInResolve,
                   logger, response>>

\* the state of the middleware apolloServer(options) returns, for one request
VARIABLES
  options,           \* the argument of apolloServer: the options or their factory
  optionsData,       \* the promise the handler makes for the options
  httpResponse       \* what was sent back for the request, if anything

serverVars == <<options, optionsData, httpResponse>>
vars == <<mockVars, generatorVars, serverVars>>

(***************************************************************************)
(* Evaluation state: the Math.random() stream and the call log.            *)
(***************************************************************************)
NewState(rs) == [rs |-> rs, n |-> 0, log |-> <<>>]
\* the numerator d of the next Math.random() = d / RandDen
Random(st) == st.rs[(st.n % Len(st.rs)) + 1]
Drawn(st) == [st EXCEPT !.n = @ + 1]
Logged(st, entry) == [st EXCEPT !.log = Append(@, entry)]
Ret(v, st) == [v |-> v, st |-> st]

\* the MockList constructor taking null for an absent element generator
NewMockListNullOk(len, wrappedFunction) ==
  IF TypeOf(wrappedFunction) # "undefined" /\ wrappedFunction.k # "null"
     /\ TypeOf(wrappedFunction) # "function"
  THEN Throw("Error", "Second argument to MockList must be a function or undefined")
  ELSE [k |-> "MockList", len |-> len, wrappedFunction |-> wrappedFunction,
        p |-> EmptyProps]

\* constructor of MockList
NewMockList(len, wrappedFunction) ==
  IF TypeOf(wrappedFunction) # "undefined" /\ TypeOf(wrappedFunction) # "function"
  THEN Throw("Error", "Second argument to MockList must be a function or undefined")
  ELSE [k |-> "MockList", len |-> len, wrappedFunction |-> wrappedFunction,
        p |-> EmptyProps]

\* what the body of a caller-supplied function returns for (root, args, context)
Apply(body, root, args, ctx) ==
  CASE body.op = "const" -> body.c
    [] body.op = "arg" -> GetProp(args, body.key)
    [] body.op = "context" -> GetProp(ctx, body.key)
    [] body.op = "root" -> GetProp(root, body.key)
    [] body.op = "objArg" -> Lit(body.prop :> GetProp(args, body.key))
    [] body.op = "MockList" -> NewMockList(body.len, body.wrapped)
    [] body.op = "MockListArg" -> NewMockList(GetProp(args, body.key), body.wrapped)
    [] OTHER -> Undefined

\* fn(root, args, context, info), logged with the place it is called from
Call(site, of, fn, root, args, ctx, st) ==
  Ret(Apply(fn.body, root, args, ctx),
      Logged(st, [call |-> site, of |-> of, root |-> root, args |-> args, ctx |-> ctx]))

\* isObject(thing): thing === Object(thing) && !Array.isArray(thing)
isObject(thing) == thing.k \in ObjectLike \ {"array"}

\* mergeObjects(a, b): Object.assign writes the properties of b into a and
\* returns a, so the value is also what the object a is after the call
mergeObjects(a, b) == ObjectAssign(a, b)

\* randint rounding up, Math.ceil for Math.floor
randintCeil(low, high, d) ==
  -((-((d * ((high - low) + 1)) + (low * RandDen))) \div RandDen)

\* MockList.randint(low, high) for the draw d / RandDen
randint(low, high, d) == ((d * ((high - low) + 1)) + (low * RandDen)) \div RandDen

\* getRandomElement(ary) for the draw d / RandDen
getRandomElement(ary, d) == ary[((d * Len(ary)) \div RandDen) + 1]

\* the default generators with Int made as Math.round(Math.random() * 400) - 100
defaultMockMapWide(name, d) ==
  CASE name = "Int" -> Num((((2 * d * 400) + RandDen) \div (2 * RandDen)) - 100)
    [] name = "Float" -> Frac((d * 200) - (100 * RandDen), RandDen)
    [] name = "String" -> Str("Hello World")
    [] name = "Boolean" -> Bool(2 * d > RandDen)
    [] name = "ID" -> Str("uuid.v4()")

\* the entries of defaultMockMap, for the draw d / RandDen
defaultMockMap(name, d) ==
  CASE name = "Int" -> Num((((2 * d * 200) + RandDen) \div (2 * RandDen)) - 100)
    [] name = "Float" -> Frac((d * 200) - (100 * RandDen), RandDen)
    [] name = "String" -> Str("Hello World")
    [] name = "Boolean" -> Bool(2 * d > RandDen)
    [] name = "ID" -> Str("uuid.v4()")
defaultMockMapHas(name) == name \in {"Int", "Float", "String", "Boolean", "ID"}
\* which default generators call Math.random()
defaultMockDraws(name) == name \in {"Int", "Float", "Boolean"}

(***************************************************************************)
(* mergeMocks, mockType and MockList.mock.                                 *)
(***************************************************************************)
\* fieldName of a resolver made without one: root[undefined] reads this key
NoFieldName == "undefined"

RECURSIVE mergeMocks(_, _, _, _, _, _)
RECURSIVE mergeMocksMap(_, _, _, _, _, _, _)
RECURSIVE mockType(_, _, _, _, _, _)
RECURSIVE MockListMock(_, _, _, _, _, _)
RECURSIVE MockListFill(_, _, _, _, _, _, _, _, _)
RECURSIVE mockTypeExisting(_, _, _, _, _, _)
RECURSIVE mockTypeList(_, _, _, _, _)
RECURSIVE mockTypeAbstract(_, _, _, _, _)

\* sequencing: a thrown error x propagates, a value is handed on to K
Then(x, K(_)) == IF IsThrow(x.v) THEN x ELSE K(x)

\* customMock.map(el => mergeMocks(genericMockFunction, el)), elements i.. on
mergeMocksMap(genericMockFunction, els, i, root, args, ctx, st) ==
  IF i > Len(els) THEN Ret(Array(<<>>), st)
  ELSE Then(mergeMocks(genericMockFunction, els[i], root, args, ctx, st),
            LAMBDA head :
              Then(mergeMocksMap(genericMockFunction, els, i + 1, root, args, ctx, head.st),
                   LAMBDA tail : Ret(Array(<<head.v>> \o tail.v.els), tail.st)))

\* mergeMocks(genericMockFunction, customMock), genericMockFunction being the
\* registry factory bound to (root, args, context, info)
mergeMocks(genericMockFunction, customMock, root, args, ctx, st) ==
  IF customMock.k = "array"
  THEN mergeMocksMap(genericMockFunction, customMock.els, 1, root, args, ctx, st)
  ELSE IF isObject(customMock)
  THEN Then(Call("generic", "", genericMockFunction, root, args, ctx, st),
            LAMBDA generic :
              Ret(mergeObjects(generic.v, customMock),
                  Logged(generic.st, [call |-> "mergeObjects", a |-> generic.v,
                                      b |-> customMock,
                                      target |-> mergeObjects(generic.v, customMock)])))
  ELSE Ret(customMock, st)

\* mockTypeBranch with the registry looked up before root[fieldName]
mockTypeBranchRegistryFirst(type, fieldName, root) ==
  LET fieldType == getNullableType(type)
  IN IF fieldType.w = "named" /\ fieldType.name \in DOMAIN mockFunctionMap THEN "registry"
     ELSE IF Truthy(root) /\ TypeOf(GetProp(root, fieldName)) # "undefined" THEN "existing"
     ELSE IF fieldType.w = "list" THEN "list"
     ELSE IF fieldType.w = "undefined" THEN "TypeError"
     ELSE IF fieldType.name \in ObjectTypes THEN "object"
     ELSE IF fieldType.name \in UnionTypes THEN "union"
     ELSE IF fieldType.name \in InterfaceTypes THEN "interface"
     ELSE IF fieldType.name \in EnumTypes THEN "enum"
     ELSE IF defaultMockMapHas(fieldType.name) THEN "default"
     ELSE "throw"

\* mockTypeBranch with the empty object for a type nothing can mock
mockTypeBranchLenient(type, fieldName, root) ==
  LET fieldType == getNullableType(type)
  IN IF Truthy(root) /\ TypeOf(GetProp(root, fieldName)) # "undefined" THEN "existing"
     ELSE IF fieldType.w = "list" THEN "list"
     ELSE IF fieldType.w = "undefined" THEN "TypeError"
     ELSE IF fieldType.name \in DOMAIN mockFunctionMap THEN "registry"
     ELSE IF fieldType.name \in ObjectTypes THEN "object"
     ELSE IF fieldType.name \in UnionTypes THEN "union"
     ELSE IF fieldType.name \in InterfaceTypes THEN "interface"
     ELSE IF fieldType.name \in EnumTypes THEN "enum"
     ELSE IF defaultMockMapHas(fieldType.name) THEN "default"
     ELSE "object"

\* the branch with the registry looked up last, after the placeholder, the
\* random selections and the default generators
mockTypeBranchRegistryLast(type, fieldName, root) ==
  LET fieldType == getNullableType(type)
  IN IF Truthy(root) /\ TypeOf(GetProp(root, fieldName)) # "undefined" THEN "existing"
     ELSE IF fieldType.w = "list" THEN "list"
     ELSE IF fieldType.w = "undefined" THEN "TypeError"
     ELSE IF fieldType.name \in ObjectTypes THEN "object"
     ELSE IF fieldType.name \in UnionTypes THEN "union"
     ELSE IF fieldType.name \in InterfaceTypes THEN "interface"
     ELSE IF fieldType.name \in EnumTypes THEN "enum"
     ELSE IF defaultMockMapHas(fieldType.name) THEN "default"
     ELSE IF fieldType.name \in DOMAIN mockFunctionMap THEN "registry"
     ELSE "throw"

\* the branch of mockType an invocation takes
mockTypeBranch(type, fieldName, root) ==
  LET fieldType == getNullableType(type)
  IN IF Truthy(root) /\ TypeOf(GetProp(root, fieldName)) # "undefined" THEN "existing"
     ELSE IF fieldType.w = "list" THEN "list"
     ELSE IF fieldType.w = "undefined" THEN "TypeError"
     ELSE IF fieldType.name \in DOMAIN mockFunctionMap THEN "registry"
     ELSE IF fieldType.name \in ObjectTypes THEN "object"
     ELSE IF fieldType.name \in UnionTypes THEN "union"
     ELSE IF fieldType.name \in InterfaceTypes THEN "interface"
     ELSE IF fieldType.name \in EnumTypes THEN "enum"
     ELSE IF defaultMockMapHas(fieldType.name) THEN "default"
     ELSE "throw"

\* lines 162-164 of mockType: a MockList the field's function returned is expanded
expandMockList(called, root, args, ctx, fieldType) ==
  IF called.v.k = "MockList"
  THEN MockListMock(called.v, root, args, ctx, fieldType, called.st)
  ELSE called

\* lines 169-176 of mockType: the result is merged with the registry's mock of
\* the named type
mergeWithRegistry(result, namedFieldType, root, args, ctx) ==
  IF namedFieldType.w = "undefined"
  THEN Ret(Throw("TypeError", "Cannot read property 'name' of undefined"), result.st)
  ELSE IF namedFieldType.name \in DOMAIN mockFunctionMap
  THEN mergeMocks(mockFunctionMap[namedFieldType.name], result.v,
                  root, args, ctx, result.st)
  ELSE result

\* lines 156-177 of mockType: root already has the field
mockTypeExisting(fieldType, fieldName, root, args, ctx, st) ==
  Then(IF TypeOf(GetProp(root, fieldName)) = "function"
       THEN expandMockList(Call("root[fieldName]", fieldName, GetProp(root, fieldName),
                                root, args, ctx, st),
                           root, args, ctx, fieldType)
       ELSE Ret(GetProp(root, fieldName), st),
       LAMBDA result :
         mergeWithRegistry(result, getNamedType(fieldType), root, args, ctx))

\* the two-element list with one element made and used twice
mockTypeListShared(fieldType, root, args, ctx, st) ==
  Then(mockType(fieldType.ofType, NoFieldName, root, args, ctx, st),
       LAMBDA first : Ret(Array(<<first.v, first.v>>), first.st))

\* lines 179-182 of mockType: the two-element list
mockTypeList(fieldType, root, args, ctx, st) ==
  Then(mockType(fieldType.ofType, NoFieldName, root, args, ctx, st),
       LAMBDA first :
         Then(mockType(fieldType.ofType, NoFieldName, root, args, ctx, first.st),
              LAMBDA second : Ret(Array(<<first.v, second.v>>), second.st)))

\* the union and interface steps returning what the resolver of the member
\* picked returns, not assigned onto { typename: randomType }
mockTypeAbstractUnstamped(types, root, args, ctx, st) ==
  mockType(Named(getRandomElement(types, Random(st))), NoFieldName, root, args, ctx,
           Logged(Drawn(st), [call |-> "randomType",
                              of |-> getRandomElement(types, Random(st))]))

\* lines 196-204 of mockType: a random member of the union's types, or of the
\* interface's possible types, stamped with typename
mockTypeAbstract(types, root, args, ctx, st) ==
  Then(mockType(Named(getRandomElement(types, Random(st))), NoFieldName, root, args, ctx,
                Logged(Drawn(st), [call |-> "randomType",
                                   of |-> getRandomElement(types, Random(st))])),
       LAMBDA member :
         Ret(ObjectAssign(Lit([typename |-> GType(getRandomElement(types, Random(st)))]),
                          member.v),
             member.st))

\* the object step resolving the field returnInt of the object it makes
mockTypeObjectEager(fieldType, root, args, ctx, st) ==
  Then(mockType(getFields(fieldType.name).returnInt, "returnInt", EmptyObject, args, ctx, st),
       LAMBDA field : Ret(Lit([returnInt |-> field.v]), field.st))

\* lines 187-190 of mockType: an object type is mocked as {}, its fields being
\* resolved by their own resolvers
mockTypeObject(fieldType, root, args, ctx, st) == Ret(EmptyObject, st)

\* the dispatch of mockType on the branch taken, st0 being the state with the
\* invocation logged
mockTypeDispatch(branch, fieldType, fieldName, root, args, ctx, st0) ==
  CASE branch = "existing" -> mockTypeExisting(fieldType, fieldName, root, args, ctx, st0)
    [] branch = "list" -> mockTypeList(fieldType, root, args, ctx, st0)
    [] branch = "TypeError" ->
         Ret(Throw("TypeError", "Cannot read property 'name' of undefined"), st0)
    [] branch = "registry" ->
         Call("registry", fieldType.name, mockFunctionMap[fieldType.name],
              root, args, ctx, st0)
    [] branch = "object" -> mockTypeObject(fieldType, root, args, ctx, st0)
    [] branch = "union" ->
         mockTypeAbstract(getTypes(fieldType.name), root, args, ctx, st0)
    [] branch = "interface" ->
         mockTypeAbstract(getPossibleTypes(fieldType.name), root, args, ctx, st0)
    [] branch = "enum" ->
         Ret(getRandomElement(getValues(fieldType.name), Random(st0)).value, Drawn(st0))
    [] branch = "default" ->
         Ret(defaultMockMap(fieldType.name, Random(st0)),
             IF defaultMockDraws(fieldType.name) THEN Drawn(st0) ELSE st0)
    [] OTHER ->
         Ret(Throw("Error", "No mock defined for type \"" \o fieldType.name \o "\""), st0)

\* the resolver refusing null for a type wrapped in NonNull
mockTypeNonNullChecked(type, fieldName, root, args, ctx, st) ==
  Then(mockTypeDispatch(mockTypeBranch(type, fieldName, root), getNullableType(type),
                        fieldName, root, args, ctx,
                        Logged(st, [call |-> "mockType", type |-> type,
                                    fieldName |-> fieldName,
                                    branch |-> mockTypeBranch(type, fieldName, root)])),
       LAMBDA res :
         IF type.w = "nonnull" /\ res.v.k \in {"null", "undefined"}
         THEN Ret(Throw("Error", "Cannot return null for non-nullable type"), res.st)
         ELSE res)

\* mockType(type, typeName, fieldName)(root, args, context, info)
mockType(type, fieldName, root, args, ctx, st) ==
  mockTypeDispatch(mockTypeBranch(type, fieldName, root), getNullableType(type),
                   fieldName, root, args, ctx,
                   Logged(st, [call |-> "mockType", type |-> type,
                               fieldName |-> fieldName,
                               branch |-> mockTypeBranch(type, fieldName, root)]))

\* new Array(len).length; -1 stands for the RangeError of an invalid length
ArrayLength(len) ==
  IF len.k # "number" THEN 1
  ELSE IF len.den = 1 /\ len.n >= 0 THEN len.n
  ELSE -1

\* the element at index i with what wrappedFunction returns used as it is, a
\* MockList too
MockListElementFlat(ml, i, root, args, ctx, fieldType, st) ==
  IF TypeOf(ml.wrappedFunction) = "function"
  THEN Call("wrappedFunction", Digits[i], ml.wrappedFunction, root, args, ctx, st)
  ELSE IF fieldType.w = "undefined"
  THEN Ret(Throw("TypeError", "Cannot read property 'ofType' of undefined"), st)
  ELSE mockType(ofType(fieldType), NoFieldName, root, args, ctx, st)

\* lines 302-312 of MockList.mock: the element at index i (1-based)
MockListElement(ml, i, root, args, ctx, fieldType, st) ==
  IF TypeOf(ml.wrappedFunction) = "function"
  THEN IF fieldType.w = "undefined"
       THEN Then(Call("wrappedFunction", Digits[i], ml.wrappedFunction, root, args, ctx, st),
                 LAMBDA res :
                   IF res.v.k = "MockList"
                   THEN Ret(Throw("TypeError", "Cannot read property 'ofType' of undefined"),
                            res.st)
                   ELSE res)
       ELSE expandMockList(Call("wrappedFunction", Digits[i], ml.wrappedFunction,
                                root, args, ctx, st),
                           root, args, ctx, getNullableType(ofType(fieldType)))
  ELSE IF fieldType.w = "undefined"
  THEN Ret(Throw("TypeError", "Cannot read property 'ofType' of undefined"), st)
  ELSE mockType(ofType(fieldType), NoFieldName, root, args, ctx, st)

\* the for loop of MockList.mock making one element and repeating it n times
MockListFillCached(ml, i, n, arr, root, args, ctx, fieldType, st) ==
  IF i > n THEN Ret(Array(arr), st)
  ELSE Then(MockListElement(ml, i, root, args, ctx, fieldType, st),
            LAMBDA el : Ret(Array(arr \o [j \in 1..(n - i + 1) |-> el.v]), el.st))

\* the for loop of MockList.mock from index i on (1-based), arr holding the
\* elements made so far of the n to make
MockListFill(ml, i, n, arr, root, args, ctx, fieldType, st) ==
  IF i > n THEN Ret(Array(arr), st)
  ELSE Then(MockListElement(ml, i, root, args, ctx, fieldType, st),
            LAMBDA el : MockListFill(ml, i + 1, n, Append(arr, el.v), root, args, ctx,
                                     fieldType, el.st))

\* lines 294-299 of MockList.mock: the length of the array to make, for the
\* draw d / RandDen; Frac(0, 0) stands for NaN
MockListLength(len, d) ==
  IF len.k # "array" THEN ArrayLength(len)
  ELSE IF /\ Len(len.els) >= 2
          /\ len.els[1].k = "number" /\ len.els[1].den = 1
          /\ len.els[2].k = "number" /\ len.els[2].den = 1
  THEN ArrayLength(Num(randint(len.els[1].n, len.els[2].n, d)))
  ELSE ArrayLength(Frac(0, 0))

\* the body of MockList.mock once the length n is known
MockListMake(ml, n, root, args, ctx, fieldType, st) ==
  IF n < 0 THEN Ret(Throw("RangeError", "Invalid array length"), st)
  ELSE MockListFill(ml, 1, n, <<>>, root, args, ctx, fieldType, st)

\* MockList.mock(root, args, context, info, fieldType, mockTypeFunc), with
\* mockTypeFunc = mockType as at its one call site
MockListMock(ml, root, args, ctx, fieldType, st) ==
  MockListMake(ml, MockListLength(ml.len, Random(st)), root, args, ctx, fieldType,
               Logged(IF ml.len.k = "array" THEN Drawn(st) ELSE st,
                      [call |-> "MockList.mock", fieldType |-> fieldType,
                       len |-> ml.len, length |-> MockListLength(ml.len, Random(st)),
                       draw |-> IF ml.len.k = "array" THEN st.n ELSE -1]))

(***************************************************************************)
(* The preserve-mode merge.                                                *)
(***************************************************************************)
\* copyOwnPropsIfNotPresent going over Object.keys(source), the enumerable
\* properties only
copyEnumerablePropsIfNotPresent(target, source) ==
  WithProps(target, target.p @@ [key \in Keys(source) |-> OwnProps(source)[key]])

\* copyOwnPropsIfNotPresent(target, source)
copyOwnPropsIfNotPresent(target, source) ==
  WithProps(target, target.p @@ OwnProps(source))

RECURSIVE copyChain(_, _)
\* the while loop of copyOwnProps: the source and then its prototype chain
copyChain(target, chain) ==
  IF ~Truthy(chain) THEN target
  ELSE copyChain(copyOwnPropsIfNotPresent(target, chain), GetPrototypeOf(chain))

RECURSIVE copyOwnProps(_, _)
\* copyOwnProps(target, ...sources)
copyOwnProps(target, sources) ==
  IF sources = <<>> THEN target
  ELSE copyOwnProps(copyChain(target, Head(sources)), Tail(sources))

\* the callback given to Promise.all(...).then in the composed resolver
mergeResolved(mockedValue, resolvedValue) ==
  IF isObject(mockedValue) /\ isObject(resolvedValue)
  THEN copyOwnProps(EmptyObject, <<resolvedValue, mockedValue>>)
  ELSE IF resolvedValue.k # "undefined" THEN resolvedValue ELSE mockedValue

(***************************************************************************)
(* The resolution functions a field can carry.                             *)
(***************************************************************************)
NoResolver == [r |-> "none"]
\* a resolver attached before mocking
RealResolver(fn) == [r |-> "real", fn |-> fn]
\* the resolver an introspection field comes with
IntrospectionResolver == RealResolver(Fn(1, [op |-> "native"]))
\* mockType(field.type, typeName, fieldName)
MockResolver(id) == [r |-> "mockType", typeName |-> id[1], fieldName |-> id[2]]
\* the root-field resolver closing over rootMock
RootMockResolver(id) == [r |-> "rootMock", typeName |-> id[1], fieldName |-> id[2]]
\* the composed resolver of preserve mode
PreservedResolver(mockResolver, oldResolver) ==
  [r |-> "preserved", mockResolver |-> mockResolver, oldResolver |-> oldResolver]

\* obj[key] = val on an object
SetProp(obj, key, val) ==
  WithProps(obj, (key :> Prop(val, IF key \in DOMAIN OwnProps(obj)
                                   THEN OwnProps(obj)[key].e ELSE TRUE)) @@ obj.p)

\* the result of a resolution with the root object as the call leaves it
Ret3(v, st, root) == [v |-> v, st |-> st, root |-> root]

\* lines 241-246: updatedRoot[fieldName] = rootMock(...)[fieldName], then
\* mockType(field.type, typeName, fieldName)(updatedRoot, args, context, info);
\* written is updatedRoot after the assignment
rootMockWritten(id, root, written, args, ctx, st) ==
  mockType(FieldType(id), id[2], written, args, ctx,
           Logged(st, [call |-> "updatedRoot", root |-> written]))
    @@ [root |-> IF Truthy(root) THEN written ELSE root]

\* lines 241-246 once rootMock(root, args, context, info) has returned made
rootMockMade(id, made, root, args, ctx) ==
  IF IsThrow(made.v) THEN Ret3(made.v, made.st, root)
  ELSE IF made.v.k \in {"undefined", "null"}
  THEN Ret3(Throw("TypeError", "Cannot read property of undefined or null"), made.st, root)
  ELSE rootMockWritten(id, root,
                       SetProp(IF Truthy(root) THEN root ELSE EmptyObject, id[2],
                               GetProp(made.v, id[2])),
                       args, ctx, made.st)

\* mockResolver(root, args, context, info) for the two resolvers the installer makes
RunMockResolver(resolver, root, args, ctx, st) ==
  IF resolver.r = "rootMock"
  THEN rootMockMade(<<resolver.typeName, resolver.fieldName>>,
                    Call("rootMock", resolver.typeName, mockFunctionMap[resolver.typeName],
                         root, args, ctx, st),
                    root, args, ctx)
  ELSE mockType(FieldType(<<resolver.typeName, resolver.fieldName>>), resolver.fieldName,
                root, args, ctx, st) @@ [root |-> root]

(***************************************************************************)
(* addMockFunctionsToSchema: validation and the forEachField callback.     *)
(***************************************************************************)
NoResolveType == [r |-> "none"]
\* a resolveType attached before mocking, declaring len parameters
CustomResolveType(len) == [r |-> "custom", len |-> len]
FallbackResolveType == [r |-> "fallback"]

\* getResolveType(namedFieldType) is truthy
getResolveType(rt, namedFieldType) ==
  IF namedFieldType.name \in AbstractTypes THEN rt[namedFieldType.name] ELSE NoResolveType

\* assignResolveType keeping every resolveType there is in preserve mode
assignResolveTypeKeepAll(rt, type, preserve) ==
  LET fieldType == getNullableType(type)
      namedFieldType == getNamedType(fieldType)
      oldResolveType == getResolveType(rt, namedFieldType)
  IN IF preserve /\ oldResolveType.r # "none"
     THEN rt
     ELSE IF namedFieldType.name \in AbstractTypes
     THEN [rt EXCEPT ![namedFieldType.name] = FallbackResolveType]
     ELSE rt

\* assignResolveType installing the fallback on union types only
assignResolveTypeUnionsOnly(rt, type, preserve) ==
  LET fieldType == getNullableType(type)
      namedFieldType == getNamedType(fieldType)
      oldResolveType == getResolveType(rt, namedFieldType)
  IN IF preserve /\ oldResolveType.r # "none"
        /\ (oldResolveType.r = "fallback" \/ oldResolveType.len # 0)
     THEN rt
     ELSE IF namedFieldType.name \in UnionTypes
     THEN [rt EXCEPT ![namedFieldType.name] = FallbackResolveType]
     ELSE rt

\* assignResolveType(type) on the resolveType functions rt of the schema
assignResolveType(rt, type, preserve) ==
  LET fieldType == getNullableType(type)
      namedFieldType == getNamedType(fieldType)
      oldResolveType == getResolveType(rt, namedFieldType)
  IN IF preserve /\ oldResolveType.r # "none"
        /\ (oldResolveType.r = "fallback" \/ oldResolveType.len # 0)
     THEN rt
     ELSE IF namedFieldType.name \in AbstractTypes
     THEN [rt EXCEPT ![namedFieldType.name] = FallbackResolveType]
     ELSE rt

\* made[fieldName] for the object made a root factory returned
probeField(made, fieldName) ==
  IF IsThrow(made) THEN made
  ELSE IF made.k \in {"undefined", "null"}
  THEN Throw("TypeError", "Cannot read property of undefined or null")
  ELSE GetProp(made, fieldName)

\* rootMock(undefined, {}, {}, {})[fieldName], the eager probe of the installer
rootMockProbe(rootMock, fieldName) ==
  probeField(Apply(rootMock.body, Undefined, EmptyObject, EmptyObject), fieldName)

\* the installer overriding whatever resolver the field has
installResolverOverride(sch, id, mockResolver, preserve) ==
  [sch EXCEPT !.resolve[id] = mockResolver]

\* lines 251-269: field.resolve as the installer sets it, mockResolver made
installResolver(sch, id, mockResolver, preserve) ==
  [sch EXCEPT !.resolve[id] = IF ~preserve \/ sch.resolve[id].r = "none" THEN mockResolver
                              ELSE PreservedResolver(mockResolver, sch.resolve[id])]

\* lines 222-249: the choice of mockResolver; probed tells that the field is on
\* a root type that has a registry entry, probe is what the eager probe yields
installProbed(sch, id, probed, probe, preserve) ==
  IF probed /\ IsThrow(probe) THEN [sch EXCEPT !.error = probe]
  ELSE installResolver(sch, id,
                       IF probed /\ Truthy(probe) THEN RootMockResolver(id)
                       ELSE MockResolver(id),
                       preserve)

\* the callback of forEachField for one field, on the schema state
\* sch = [resolve, resolveType, error]
installField(sch, id, map, preserve) ==
  installProbed([sch EXCEPT !.resolveType =
                   assignResolveType(sch.resolveType, FieldType(id), preserve)],
                id,
                id[1] \in {getQueryType, getMutationType} /\ id[1] \in DOMAIN map,
                IF id[1] \in DOMAIN map THEN rootMockProbe(map[id[1]], id[2])
                ELSE Undefined,
                preserve)

RECURSIVE forEachField(_, _, _, _)
\* forEachField(schema, callback) from the i-th field on
forEachField(sch, i, map, preserve) ==
  IF i > Len(TypeMapFieldOrder) \/ sch.error.k # "undefined" THEN sch
  ELSE forEachField(IF ~startsWith__(TypeMapFieldOrder[i][1])
                       /\ IsObjectType(TypeMapFieldOrder[i][1])
                    THEN installField(sch, TypeMapFieldOrder[i], map, preserve)
                    ELSE sch,
                    i + 1, map, preserve)

\* the default of the parameter: mocks = {}
mocksOrDefault(mocks) == IF mocks.k = "undefined" THEN EmptyObject ELSE mocks

\* the checks of addMockFunctionsToSchema without the one of the entries
configErrorNoEntryCheck(schemaGiven, mocks) ==
  IF ~schemaGiven THEN Throw("Error", "Must provide schema to mock")
  ELSE IF ~isObject(mocks) THEN Throw("Error", "mocks must be of type Object")
  ELSE Undefined

\* the checks of addMockFunctionsToSchema before any field is touched
configError(schemaGiven, mocks) ==
  IF ~schemaGiven THEN Throw("Error", "Must provide schema to mock")
  ELSE IF ~isObject(mocks) THEN Throw("Error", "mocks must be of type Object")
  ELSE LET bad == {name \in Keys(mocks) : TypeOf(GetProp(mocks, name)) # "function"}
       IN IF bad # {}
          THEN Throw("Error", "mockFunctionMap[" \o (CHOOSE name \in bad : TRUE)
                              \o "] must be a function")
          ELSE Undefined

(***************************************************************************)
(* Inputs: caller-supplied functions, registries, resolvers, roots, args.  *)
(***************************************************************************)
\* () => c
Const(c) == Fn(0, [op |-> "const", c |-> c])
\* (root, args) => args[key]
ArgFn(key) == Fn(2, [op |-> "arg", key |-> key])
\* (root) => root[key]
RootFn(key) == Fn(1, [op |-> "root", key |-> key])
\* () => new MockList(len, wrapped)
MockListFn(len, wrapped) == Fn(0, [op |-> "MockList", len |-> len, wrapped |-> wrapped])
\* (root, args) => new MockList(args[key], wrapped)
MockListArgFn(key, wrapped) ==
  Fn(2, [op |-> "MockListArg", key |-> key, wrapped |-> wrapped])

Context == Lit([user |-> Str("me")])

BirdMock == Lit([returnInt |-> Num(12), returnString |-> Str("woot!?")])

MocksEmpty == EmptyObject
MocksScalars == Lit([Int |-> Const(Num(123)), String |-> Const(Str("a"))])
MocksBird ==
  Lit([Bird |-> Const(BirdMock), Bee |-> Const(Lit([returnInt |-> Num(2)])),
       Int |-> Const(Num(15))])
MocksRoot ==
  Lit([RootQuery |->
         Const(Lit([returnStringArgument |-> ArgFn("s"),
                    returnListOfInt |-> MockListFn(Num(3), Undefined),
                    returnListOfIntArg |-> MockListArgFn("l", Undefined),
                    returnListOfListOfInt |->
                      MockListFn(Num(2), MockListFn(Num(3), Undefined)),
                    returnListOfListOfObject |->
                      MockListFn(Num(1), MockListFn(Num(2), Const(Lit([returnInt |-> Num(4)])))),
                    returnObject |-> Const(Lit([returnInt |-> Num(7)])),
                    returnEnum |-> Str("C"),
                    returnInt |-> Num(0),
                    returnString |-> Str(""),
                    returnBoolean |-> Bool(FALSE)])),
       RootMutation |-> Const(Lit([returnStringArgument |-> ArgFn("s")])),
       Bird |-> Const(BirdMock),
       Int |-> Const(Num(12))])
MocksLists ==
  Lit([RootQuery |->
         Const(Lit([returnListOfInt |-> MockListFn(Array(<<Num(1), Num(3)>>), Undefined),
                    returnListOfIntArg |-> MockListFn(Num(2), Const(Num(33))),
                    returnListOfListOfInt |->
                      MockListFn(Num(2), MockListFn(Array(<<Num(0), Num(1)>>), Undefined)),
                    returnObject |-> Lit([returnString |-> Str("own")]),
                    returnStringArgument |-> RootFn("returnStringArgument")])),
       Int |-> Const(Num(12))])
\* { RootQuery: () => ({ returnListOfInt: () => new MockList(2, null),
\*                       returnListOfIntArg: () => new MockList(2, 'abc'),
\*                       returnListOfListOfInt: () => new MockList(2, 5) }) }
MocksBadList ==
  Lit([RootQuery |->
         Const(Lit([returnListOfInt |-> MockListFn(Num(2), Null),
                    returnListOfIntArg |-> MockListFn(Num(2), Str("abc")),
                    returnListOfListOfInt |-> MockListFn(Num(2), Num(5))]))])
\* { RootQuery: () => ({ returnListOfInt: new MockList(2),
\*                       returnListOfIntArg: () => new MockList([3, 1]),
\*                       returnListOfListOfInt: () => new MockList([-1, 0]) }),
\*   Bird: () => new MockList(2) }
MocksDescriptors ==
  Lit([RootQuery |->
         Const(Lit([returnListOfInt |-> NewMockList(Num(2), Undefined),
                    returnListOfIntArg |-> MockListFn(Array(<<Num(3), Num(1)>>), Undefined),
                    returnListOfListOfInt |->
                      MockListFn(Array(<<Num(-1), Num(0)>>), Undefined)])),
       Bird |-> MockListFn(Num(2), Undefined)])
MocksUnion ==
  Lit([Bird |-> Const(Lit([returnInt |-> Num(3), typename |-> Str("Bee")])),
       Bee |-> Const(Lit([returnInt |-> Num(2)]))])
\* entries for an enum, a union and an interface
MocksAbstract ==
  Lit([SomeEnum |-> Const(Str("C")),
       BirdsAndBees |-> Const(Lit([typename |-> Str("Bee"), returnInt |-> Num(4)])),
       Flying |-> ArgFn("s")])
MocksNull == Lit([Bird |-> Const(Null), String |-> Const(Null)])

\* a registry with an entry that is no function
MocksNotFunction == Lit([Int |-> Num(55)])
\* registry arguments that are no keyed object, and a function given as one
MocksArray == Array(<<Str("a")>>)
MocksFunction == Const(EmptyObject)

MockMaps == {MocksEmpty, MocksScalars, MocksBird, MocksRoot, MocksLists, MocksDescriptors,
             MocksUnion,
             MocksNull, MocksBadList, MocksAbstract, MocksNotFunction, MocksArray, MocksFunction,
             Null, Num(5),
             Str("mocks"), Bool(TRUE), Undefined}

\* an object whose returnInt was defined with Object.defineProperty
ObjProxy == Object([returnInt |-> Prop(Num(12), FALSE)], ObjectPrototype)
\* an instance of a class that defines returnString on its prototype
BirdInstance ==
  Object([returnInt |-> Prop(Num(12), TRUE)],
         Object([constructor |-> Prop(Fn(0, [op |-> "native"]), FALSE),
                 returnString |-> Prop(Str("inherited"), FALSE)], ObjectPrototype))

Resolvers(f) ==
  [id \in TypeMapFieldIds |->
     IF id \in DOMAIN f THEN RealResolver(f[id])
     ELSE IF startsWith__(id[1]) THEN IntrospectionResolver
     ELSE NoResolver]

ResolversNone == Resolvers(EmptyProps)
ResolversA ==
  Resolvers((<<"RootQuery", "returnInt">> :> Const(Num(5)))
         @@ (<<"RootQuery", "returnString">> :> Const(Promise("fulfilled", Str("bar"))))
         @@ (<<"RootQuery", "returnObject">> :> Const(Lit([returnInt |-> Num(12)])))
         @@ (<<"RootQuery", "returnListOfInt">> :> Const(Array(<<Num(1), Num(2), Num(3)>>)))
         @@ (<<"RootQuery", "returnMockError">> :> Const(Str("real")))
         @@ (<<"RootQuery", "returnFloat">> :> Const(Undefined))
         @@ (<<"Bird", "returnString">> :> Const(Null)))
ResolversB ==
  Resolvers((<<"RootQuery", "returnObject">> :> Const(ObjProxy))
         @@ (<<"RootQuery", "returnString">> :> Const(Null))
         @@ (<<"RootQuery", "returnInt">> :> Const(Promise("pending", Num(7))))
         @@ (<<"RootQuery", "returnListOfInt">> :> Const(Promise("never", Undefined)))
         @@ (<<"RootQuery", "returnStringArgument">> :> RootFn("returnStringArgument"))
         @@ (<<"Bird", "returnInt">> :> Const(Undefined)))
ResolversC ==
  Resolvers((<<"RootQuery", "returnObject">> :> Const(BirdInstance))
         @@ (<<"RootQuery", "returnString">> :> Const(Promise("pending", Lit([a |-> Num(1)]))))
         @@ (<<"RootQuery", "returnEnum">> :> Const(Str("A")))
         @@ (<<"RootQuery", "returnListOfListOfInt">> :> Const(Undefined))
         @@ (<<"RootMutation", "returnStringArgument">> :> ArgFn("s")))

ResolveTypesNone == [name \in AbstractTypes |-> NoResolveType]
ResolveTypesCustom ==
  [name \in AbstractTypes |->
     IF name = "BirdsAndBees" THEN CustomResolveType(3) ELSE CustomResolveType(0)]

\* the schemas mocks are added to: the resolvers and resolveType functions
\* attached before
Schemas == {[resolve |-> ResolversNone, resolveType |-> ResolveTypesNone],
            [resolve |-> ResolversA, resolveType |-> ResolveTypesCustom],
            [resolve |-> ResolversB, resolveType |-> ResolveTypesNone],
            [resolve |-> ResolversC, resolveType |-> ResolveTypesCustom]}

RootWithValues ==
  Lit([returnInt |-> Const(Num(54321)),
       returnString |-> Null,
       returnMockError |-> Num(0),
       returnEnum |-> Str("B"),
       returnObject |-> Lit([returnInt |-> Num(99), id |-> Str("67")]),
       returnListOfInt |-> Array(<<Num(4)>>),
       returnListOfListOfObject |->
         Array(<<Array(<<Lit([returnInt |-> Num(1)]), Num(8)>>), Array(<<>>)>>),
       returnStringArgument |-> ArgFn("s")])

\* the parent objects a field of the type is resolved on
Roots(typeName) ==
  CASE typeName \in {"RootQuery", "RootMutation"} ->
         {Undefined, EmptyObject, RootWithValues}
    [] typeName = "Bird" ->
         {EmptyObject, BirdMock,
          Lit([returnInt |-> Const(Num(54321)), returnStringArgument |-> ArgFn("s")])}
    [] OTHER -> {EmptyObject, Lit([returnInt |-> Num(2), typename |-> GType("Bee")])}

\* the argument objects a field is called with
Args(id) ==
  CASE id[2] = "returnStringArgument" -> {Lit([s |-> Str("adieu")]), EmptyObject}
    [] id[2] = "returnListOfIntArg" -> {Lit([l |-> Num(1)]), Lit([l |-> Num(3)])}
    [] OTHER -> {EmptyObject}

\* the streams of Math.random() draws of one invocation
Streams == [1..MaxDraws -> 0..(RandDen - 1)]

(***************************************************************************)
(* generateSchema (schemaGenerator.js): the resolvers are attached, every  *)
(* field that needs one is checked to have one, and the resolvers are      *)
(* wrapped to refuse undefined and to log what they throw.                 *)
(***************************************************************************)
\* the shorthand schema:
\*   type Bird { name: String }
\*   type RootQuery { species(name: String): String  stuff: String  bird: Bird }
\* in the order of the type map, with one field of the introspection types
GeneratorFieldOrder ==
  <<<<"RootQuery", "species">>, <<"RootQuery", "stuff">>, <<"RootQuery", "bird">>,
    <<"Bird", "name">>, <<"__Schema", "types">>>>
GeneratorFieldIds == {GeneratorFieldOrder[i] : i \in 1..Len(GeneratorFieldOrder)}
\* the fields forEachField calls back for
VisitedFieldIds == {id \in GeneratorFieldIds : ~startsWith__(id[1])}
\* field.args.length > 0
HasArgs(id) == id = <<"RootQuery", "species">>
\* getNamedType(field.type) instanceof GraphQLScalarType
HasScalarType(id) == id # <<"RootQuery", "bird">>
\* `${typeName}.${fieldName}`
errorHint(id) == id[1] \o "." \o id[2]

\* new SchemaError(message)
SchemaError(message) == Throw("SchemaError", message)
\* a built schema: field.resolve of every field, and what building it threw
BuiltSchema(resolvers) == [resolve |-> resolvers, error |-> Undefined]
Failed(sch, error) == [sch EXCEPT !.error = error]
\* the next step of generateSchema, unless one before threw
Unless(sch, Step(_)) == IF sch.error.k # "undefined" THEN sch ELSE Step(sch)
\* buildASTSchema(parse(schemaDefinition)): no field has a resolver but those
\* of the introspection types
buildASTSchema ==
  BuiltSchema([id \in GeneratorFieldIds |->
                 IF startsWith__(id[1]) THEN Fn(1, [op |-> "native"]) ELSE Undefined])

\* the entries of resolveFunctions, given as typeName -> fieldName -> resolver
\* and kept as <<typeName, fieldName>> -> resolver, that name no type or no
\* field of the schema
UnknownTypes(resolvers) ==
  {id \in DOMAIN resolvers : \A known \in GeneratorFieldIds : known[1] # id[1]}
UnknownFields(resolvers) == DOMAIN resolvers \ GeneratorFieldIds
\* addResolveFunctionsToSchema(schema, resolveFunctions)
addResolveFunctionsToSchema(sch, resolvers) ==
  IF UnknownTypes(resolvers) # {}
  THEN Failed(sch, SchemaError("\"" \o (CHOOSE id \in UnknownTypes(resolvers) : TRUE)[1]
                               \o "\" defined in resolvers, but not in schema"))
  ELSE IF UnknownFields(resolvers) # {}
  THEN Failed(sch, SchemaError(errorHint(CHOOSE id \in UnknownFields(resolvers) : TRUE)
                               \o " defined in resolvers, but not in schema"))
  ELSE [sch EXCEPT !.resolve = [id \in GeneratorFieldIds |->
                                  IF id \in DOMAIN resolvers THEN resolvers[id] ELSE @[id]]]

\* expectResolveFunction(field, typeName, fieldName): what it throws, if anything
expectResolveFunction(fieldResolve, id) ==
  IF ~Truthy(fieldResolve)
  THEN SchemaError("Resolve function missing for \"" \o errorHint(id) \o "\"")
  ELSE IF TypeOf(fieldResolve) # "function"
  THEN SchemaError("Resolver \"" \o errorHint(id) \o "\" must be a function")
  ELSE Undefined
RECURSIVE assertResolveFunctionsPresent(_, _)
\* assertResolveFunctionsPresent(schema), from the i-th field of the type map on
assertResolveFunctionsPresent(sch, i) ==
  IF i > Len(GeneratorFieldOrder) THEN sch
  ELSE IF /\ GeneratorFieldOrder[i] \in VisitedFieldIds
          /\ (HasArgs(GeneratorFieldOrder[i]) \/ ~HasScalarType(GeneratorFieldOrder[i]))
          /\ IsThrow(expectResolveFunction(sch.resolve[GeneratorFieldOrder[i]],
                                           GeneratorFieldOrder[i]))
  THEN Failed(sch, expectResolveFunction(sch.resolve[GeneratorFieldOrder[i]],
                                         GeneratorFieldOrder[i]))
  ELSE assertResolveFunctionsPresent(sch, i + 1)

\* decorateToCatchUndefined(fn, hint)
decorateToCatchUndefined(fn, hint) ==
  Fn(0, [op |-> "decorateToCatchUndefined", fn |-> fn, hint |-> hint])
\* decorateWithLogger(fn, logger, hint)
decorateWithLogger(fn, hint) ==
  Fn(0, [op |-> "decorateWithLogger", fn |-> fn, hint |-> hint])
\* addCatchUndefinedToSchema(schema)
addCatchUndefinedToSchema(sch) ==
  [sch EXCEPT !.resolve = [id \in GeneratorFieldIds |->
                             IF id \in VisitedFieldIds
                             THEN decorateToCatchUndefined(@[id], errorHint(id))
                             ELSE @[id]]]
\* addErrorLoggingToSchema(schema, logger)
addErrorLoggingToSchema(sch, log) ==
  IF ~Truthy(log) THEN Failed(sch, Throw("Error", "Must provide a logger"))
  ELSE IF TypeOf(GetProp(log, "log")) # "function"
  THEN Failed(sch, Throw("Error", "Logger.log must be a function"))
  ELSE [sch EXCEPT !.resolve = [id \in GeneratorFieldIds |->
                                  IF id \in VisitedFieldIds
                                  THEN decorateWithLogger(@[id], errorHint(id))
                                  ELSE @[id]]]

\* generateSchema wrapping for the logger first and for undefined after
generateSchemaLoggerInside(schemaDefinition, resolvers, log, forbid) ==
  IF ~schemaDefinition
  THEN Failed(buildASTSchema, SchemaError("Must provide schemaDefinition"))
  ELSE IF ~Truthy(resolvers)
  THEN Failed(buildASTSchema, SchemaError("Must provide resolveFunctions"))
  ELSE Unless(Unless(Unless(addResolveFunctionsToSchema(buildASTSchema, resolvers.of),
                            LAMBDA sch : assertResolveFunctionsPresent(sch, 1)),
                     LAMBDA sch : IF Truthy(log) THEN addErrorLoggingToSchema(sch, log)
                                  ELSE sch),
              LAMBDA sch : IF forbid THEN addCatchUndefinedToSchema(sch) ELSE sch)

\* generateSchema(schemaDefinition, resolveFunctions, logger, forbidUndefinedInResolve)
generateSchema(schemaDefinition, resolvers, log, forbid) ==
  IF ~schemaDefinition
  THEN Failed(buildASTSchema, SchemaError("Must provide schemaDefinition"))
  ELSE IF ~Truthy(resolvers)
  THEN Failed(buildASTSchema, SchemaError("Must provide resolveFunctions"))
  ELSE Unless(Unless(Unless(addResolveFunctionsToSchema(buildASTSchema, resolvers.of),
                            LAMBDA sch : assertResolveFunctionsPresent(sch, 1)),
                     LAMBDA sch : IF forbid THEN addCatchUndefinedToSchema(sch) ELSE sch),
              LAMBDA sch : IF Truthy(log) THEN addErrorLoggingToSchema(sch, log) ELSE sch)

\* the outcome of a call of a resolver: what it returned or threw, and the
\* errors the logger holds after it
Resolved(v, errors) == [v |-> v, errors |-> errors]
\* the wrapper of decorateToCatchUndefined, fn called
catchUndefined(res, hint) ==
  IF res.v.k = "undefined"
  THEN Resolved(Throw("Error", "Resolve function for \"" \o hint \o "\" returned undefined"),
                res.errors)
  ELSE res
\* e.message = `Error in resolver ${hint}\n${e.message}`
WithHint(e, hint) == [e EXCEPT !.s = "Error in resolver " \o hint \o "\n" \o @]
\* the wrapper of decorateWithLogger, fn called: what it throws is given the
\* hint, logged by logger.log(e), which keeps it in logger.errors, and thrown on
catchAndLog(res, hint) ==
  IF IsThrow(res.v)
  THEN Resolved(WithHint(res.v, hint), Append(res.errors, WithHint(res.v, hint)))
  ELSE res
\* a resolver that throws new Error(message)
Throwing(message) == Fn(0, [op |-> "throw", error |-> Throw("Error", message)])

RECURSIVE CallResolver(_, _, _)
\* fn(source, args, context, info), the logger holding errors
CallResolver(fn, source, errors) ==
  IF TypeOf(fn) # "function"
  THEN Resolved(Throw("TypeError", "fn is not a function"), errors)
  ELSE CASE fn.body.op = "decorateToCatchUndefined" ->
              catchUndefined(CallResolver(fn.body.fn, source, errors), fn.body.hint)
         [] fn.body.op = "decorateWithLogger" ->
              catchAndLog(CallResolver(fn.body.fn, source, errors), fn.body.hint)
         [] fn.body.op = "throw" -> Resolved(fn.body.error, errors)
         [] fn.body.op = "defaultResolveFn" ->
              Resolved(IF source.k \in ObjectLike THEN GetProp(source, fn.body.fieldName)
                       ELSE Undefined,
                       errors)
         [] OTHER -> Resolved(Apply(fn.body, source, EmptyObject, EmptyObject), errors)

\* the resolver the execution engine uses for a field that has none:
\* source[fieldName] if source is an object
defaultResolveFn(fieldName) == Fn(4, [op |-> "defaultResolveFn", fieldName |-> fieldName])

\* inputs of generateSchema: the resolvers of the four fields, Undefined for a
\* field given none
ResolveFunctions(species, stuff, bird, name) ==
  [k |-> "object",
   of |-> (<<"RootQuery", "species">> :> species) @@ (<<"RootQuery", "stuff">> :> stuff)
          @@ (<<"RootQuery", "bird">> :> bird) @@ (<<"Bird", "name">> :> name)]
ResolveFunctionsGiven ==
  {ResolveFunctions(species, stuff, bird, name) :
     species \in {Undefined, Const(Str("dog")), Const(Undefined), Throwing("oops!")},
     stuff \in {Undefined, Const(Str("stuff")), Const(Undefined), Const(Null)},
     bird \in {Const(Lit([name |-> Str("robin")])), Const(Undefined), Str("bird")},
     name \in {Undefined, Const(Undefined), Const(Str("wren"))}}
  \cup {Undefined,
        [k |-> "object", of |-> (<<"RootQuery", "species">> :> Const(Str("dog")))
                                @@ (<<"RootQuery", "colour">> :> Const(Str("red")))],
        [k |-> "object", of |-> (<<"RootQuery", "species">> :> Const(Str("dog")))
                                @@ (<<"Fish", "name">> :> Const(Str("cod")))]}
\* new Logger(): log(err) pushes err on errors
NewLogger == Lit([log |-> Fn(1, [op |-> "native"]), errors |-> Array(<<>>)])
\* the loggers generateSchema is given; the default of the parameter is null
Loggers == {Null, NewLogger, Lit([log |-> Str("1")])}

\* the state before generateSchema is called
NoSchema == [state |-> "none", resolve |-> buildASTSchema.resolve]
NoResponse == [data |-> EmptyProps, errors |-> <<>>]
\* nothing was generated
GeneratorIdle ==
  /\ jsSchema = NoSchema
  /\ schemaError = Undefined
  /\ resolveFunctions = Undefined
  /\ forbidUndefinedInResolve = FALSE
  /\ logger = Null
  /\ response = NoResponse

\* no request was made, of a middleware made with the options given
NoOptionsData == [state |-> "none", val |-> Undefined]
NothingSent == [sent |-> FALSE, status |-> 0, message |-> ""]
ServerIdle(opts) ==
  /\ options = opts
  /\ optionsData = NoOptionsData
  /\ httpResponse = NothingSent

(***************************************************************************)
(* The state machine.                                                      *)
(***************************************************************************)
NoCall == [id |-> <<"", "">>, root |-> Undefined, args |-> Undefined, ctx |-> Undefined]
NoInflight == [active |-> FALSE, mock |-> Undefined, real |-> Undefined]

\* the schema as built, before mocks are added to it
MockStart(schema) ==
  /\ phase = "schema"
  /\ resolve = schema.resolve
  /\ resolveType = schema.resolveType
  /\ mockFunctionMap = EmptyProps
  /\ preserveResolvers = FALSE
  /\ setupError = Undefined
  /\ call = NoCall
  /\ out = Undefined
  /\ trace = <<>>
  /\ rootValue = Undefined
  /\ inflight = NoInflight
  /\ concrete = <<>>

Init ==
  /\ \E schema \in Schemas : MockStart(schema)
  /\ GeneratorIdle
  /\ ServerIdle(Undefined)

\* addMockFunctionsToSchema({ schema, mocks, preserveResolvers })
AddMockFunctionsToSchema(schemaGiven, mocksGiven, preserve) ==
  /\ phase = "schema"
  /\ LET mocks == mocksOrDefault(mocksGiven)
         thrown == configError(schemaGiven, mocks)
         map == [name \in Keys(mocks) |-> GetProp(mocks, name)]
         sch == forEachField([resolve |-> resolve, resolveType |-> resolveType,
                              error |-> Undefined], 1, map, preserve)
     IN IF IsThrow(thrown)
        THEN /\ phase' = "failed"
             /\ setupError' = thrown
             /\ UNCHANGED <<mockFunctionMap, preserveResolvers, resolve, resolveType>>
        ELSE /\ phase' = IF IsThrow(sch.error) THEN "failed" ELSE "mocked"
             /\ setupError' = sch.error
             /\ mockFunctionMap' = map
             /\ preserveResolvers' = preserve
             /\ resolve' = sch.resolve
             /\ resolveType' = sch.resolveType
  /\ UNCHANGED <<call, out, trace, rootValue, inflight, concrete>>
  /\ UNCHANGED <<generatorVars, serverVars>>

\* the outcome of an invocation that returned or threw synchronously
Returned(res) ==
  /\ out' = res.v
  /\ trace' = res.st.log
  /\ rootValue' = res.root
  /\ inflight' = NoInflight

\* Promise.all([mocked, resolved]) of the composed resolver, oldResolver called
Composed(mocked, resolved) ==
  /\ out' = IF IsThrow(resolved.v) THEN resolved.v ELSE Promise("pending", Undefined)
  /\ trace' = resolved.st.log
  /\ rootValue' = mocked.root
  /\ inflight' = IF IsThrow(resolved.v) THEN NoInflight
                 ELSE [active |-> TRUE, mock |-> mocked.v, real |-> resolved.v]

\* lines 257-268: the composed resolver of preserve mode, mockResolver called
Preserve(resolver, mocked, args, ctx) ==
  IF IsThrow(mocked.v) THEN Returned(mocked)
  ELSE Composed(mocked,
                Call("oldResolver", resolver.mockResolver.fieldName, resolver.oldResolver.fn,
                     mocked.root, args, ctx, mocked.st))

\* the execution engine calls field.resolve(root, args, context, info); rs is
\* the stream of Math.random() draws of the invocation
ResolveField(id, root, args, rs) ==
  /\ phase = "mocked"
  /\ call = NoCall
  /\ call' = [id |-> id, root |-> root, args |-> args, ctx |-> Context]
  /\ concrete' = <<>>
  /\ IF resolve[id].r # "preserved"
     THEN Returned(RunMockResolver(resolve[id], root, args, Context, NewState(rs)))
     ELSE Preserve(resolve[id],
                   RunMockResolver(resolve[id].mockResolver, root, args, Context,
                                   NewState(rs)),
                   args, Context)
  /\ UNCHANGED <<phase, mockFunctionMap, preserveResolvers, resolve, resolveType,
                 setupError>>
  /\ UNCHANGED <<generatorVars, serverVars>>

\* a deferred computation one half of the composed resolver waits on completes
Settle(half) ==
  /\ inflight.active
  /\ inflight[half].k = "promise"
  /\ inflight[half].state = "pending"
  /\ inflight' = [inflight EXCEPT ![half].state = "fulfilled"]
  /\ UNCHANGED <<phase, mockFunctionMap, preserveResolvers, resolve, resolveType,
                 setupError, call, out, trace, rootValue, concrete>>
  /\ UNCHANGED <<generatorVars, serverVars>>

Settled(x) == IF x.k = "promise" THEN x.state = "fulfilled" ELSE TRUE
Awaited(x) == IF x.k = "promise" THEN x.val ELSE x

\* Promise.all has both values: the then-callback of the composed resolver runs
FanIn ==
  /\ inflight.active
  /\ Settled(inflight.mock)
  /\ Settled(inflight.real)
  /\ out' = Promise("fulfilled",
                    mergeResolved(Awaited(inflight.mock), Awaited(inflight.real)))
  /\ inflight' = [inflight EXCEPT !.active = FALSE]
  /\ UNCHANGED <<phase, mockFunctionMap, preserveResolvers, resolve, resolveType,
                 setupError, call, trace, rootValue, concrete>>
  /\ UNCHANGED <<generatorVars, serverVars>>

\* the data the execution engine hands to resolveType: the elements of a list
\* result, or the result itself
Data(v) == IF v.k = "array" THEN v.els ELSE <<v>>

\* namedFieldType.resolveType(data, context, info) as installed
RunResolveType(installed, data) ==
  IF installed.r = "none" THEN Undefined
  ELSE IF data.k \in {"undefined", "null"}
  THEN Throw("TypeError", "Cannot read property 'typename' of undefined or null")
  ELSE getType(GetProp(data, "typename"))

\* the execution engine resolves the concrete type of every element of the
\* value a field of union or interface type was resolved to
ResolveAbstractType ==
  /\ phase = "mocked"
  /\ call # NoCall
  /\ concrete = <<>>
  /\ out.k \in {"array", "object"}
  /\ LET named == getNamedType(FieldType(call.id))
     IN /\ named.name \in AbstractTypes
        /\ concrete' = [i \in 1..Len(Data(out)) |->
                          RunResolveType(resolveType[named.name], Data(out)[i])]
  /\ UNCHANGED <<phase, mockFunctionMap, preserveResolvers, resolve, resolveType,
                 setupError, call, out, trace, rootValue, inflight>>
  /\ UNCHANGED <<generatorVars, serverVars>>

\* the execution engine is done with the invocation and its outcome
Complete ==
  /\ call # NoCall
  /\ call' = NoCall
  /\ out' = Undefined
  /\ trace' = <<>>
  /\ rootValue' = Undefined
  /\ inflight' = NoInflight
  /\ concrete' = <<>>
  /\ UNCHANGED <<phase, mockFunctionMap, preserveResolvers, resolve, resolveType,
                 setupError>>
  /\ UNCHANGED <<generatorVars, serverVars>>

Next ==
  \/ \E schemaGiven \in BOOLEAN, mocks \in MockMaps, preserve \in BOOLEAN :
       AddMockFunctionsToSchema(schemaGiven, mocks, preserve)
  \/ \E id \in FieldIds :
       \E root \in Roots(id[1]), args \in Args(id), rs \in Streams :
         ResolveField(id, root, args, rs)
  \/ \E half \in {"mock", "real"} : Settle(half)
  \/ FanIn
  \/ ResolveAbstractType
  \/ Complete

Spec == Init /\ [][Next]_vars

TypeOK == phase \in {"schema", "mocked", "failed"}

(***************************************************************************)
(* generateSchema and a query on the schema it returns.                    *)
(***************************************************************************)
\* generateSchema ended with the schema sch, or with what it threw
SchemaMade(sch) ==
  IF IsThrow(sch.error)
  THEN /\ schemaError' = sch.error
       /\ jsSchema' = [state |-> "failed", resolve |-> buildASTSchema.resolve]
  ELSE /\ schemaError' = Undefined
       /\ jsSchema' = [state |-> "built", resolve |-> sch.resolve]

\* jsSchema = generateSchema(shorthand, resolvers, log, forbid)
GenerateSchema(schemaDefinition, resolvers, log, forbid) ==
  /\ jsSchema.state = "none"
  /\ SchemaMade(generateSchema(schemaDefinition, resolvers, log, forbid))
  /\ resolveFunctions' = resolvers
  /\ forbidUndefinedInResolve' = forbid
  /\ logger' = log
  /\ UNCHANGED response
  /\ UNCHANGED <<mockVars, serverVars>>

\* the object the fields of the type are resolved on: the root value of the
\* query, which is undefined, or what the field bird resolved to
Source(id) ==
  IF id[1] = "RootQuery" THEN Undefined ELSE response.data[<<"RootQuery", "bird">>]
\* the execution engine has the outcome of field.resolve: an error is kept
\* and the field is null, undefined is null
Executed(id, res) ==
  /\ response' = [data |-> (id :> IF IsThrow(res.v) \/ res.v.k = "undefined" THEN Null
                                  ELSE res.v) @@ response.data,
                  errors |-> IF IsThrow(res.v) THEN Append(response.errors, res.v)
                             ELSE response.errors]
  /\ logger' = IF Truthy(logger) THEN SetProp(logger, "errors", Array(res.errors))
               ELSE logger

\* graphql(jsSchema, '{ species stuff bird { name } }') resolves one field
ExecuteField(id) ==
  /\ jsSchema.state = "built"
  /\ id \notin DOMAIN response.data
  /\ IF id[1] = "RootQuery" THEN TRUE
     ELSE IF <<"RootQuery", "bird">> \in DOMAIN response.data
     THEN response.data[<<"RootQuery", "bird">>].k = "object"
     ELSE FALSE
  /\ Executed(id,
              CallResolver(IF TypeOf(jsSchema.resolve[id]) = "undefined"
                           THEN defaultResolveFn(id[2]) ELSE jsSchema.resolve[id],
                           Source(id),
                           IF Truthy(logger) THEN GetProp(logger, "errors").els ELSE <<>>))
  /\ UNCHANGED <<jsSchema, schemaError, resolveFunctions, forbidUndefinedInResolve>>
  /\ UNCHANGED <<mockVars, serverVars>>

GeneratorNext ==
  \/ \E schemaDefinition \in BOOLEAN, resolvers \in ResolveFunctionsGiven,
        log \in Loggers, forbid \in BOOLEAN :
       GenerateSchema(schemaDefinition, resolvers, log, forbid)
  \/ \E id \in VisitedFieldIds : ExecuteField(id)

\* nothing is mocked: only generateSchema and the query on its schema run
GeneratorInit ==
  /\ MockStart([resolve |-> ResolversNone, resolveType |-> ResolveTypesNone])
  /\ GeneratorIdle
  /\ ServerIdle(Undefined)

GeneratorSpec == GeneratorInit /\ [][GeneratorNext]_vars

(***************************************************************************)
(* apolloServer(options): the middleware.  Its handler makes a promise for *)
(* the options, and in the promise's then callback checks them, makes the  *)
(* executable schema and hands the request to graphqlHTTP.  The handler    *)
(* attaches no catch: a rejected promise answers nothing.                  *)
(***************************************************************************)
GraphQLSchemaPrototype ==
  Object("constructor" :> Prop(Fn(1, [op |-> "GraphQLSchema"]), FALSE), ObjectPrototype)
\* a schema made with new GraphQLSchema(...)
GraphQLSchemaInstance == Object(EmptyProps, GraphQLSchemaPrototype)
\* schema instanceof GraphQLSchema
instanceofGraphQLSchema(schema) ==
  schema.k = "object" /\ schema.proto = GraphQLSchemaPrototype

\* typeof options === 'function' ? options(req) : options
optionsOrCall(opts) ==
  IF TypeOf(opts) # "function" THEN opts
  ELSE IF opts.body.op = "throw" THEN opts.body.error
  ELSE Apply(opts.body, Undefined, EmptyObject, EmptyObject)

\* new Promise(resolve => { resolve(value) }): rejected by a throw in the
\* executor, following a promise it is resolved with, else fulfilled
newPromise(value) ==
  IF IsThrow(value) THEN [state |-> "rejected", val |-> value]
  ELSE IF value.k = "promise" THEN [state |-> value.state, val |-> value.val]
  ELSE [state |-> "fulfilled", val |-> value]

\* the checks of the then callback on the options; Undefined when all pass
optionsError(data) ==
  IF ~Truthy(data) \/ TypeOf(data) # "object"
  THEN Throw("Error", "GraphQL middleware option function must return an options object.")
  ELSE IF ~Truthy(GetProp(data, "schema"))
  THEN Throw("Error", "GraphQL middleware options must contain a schema.")
  ELSE Undefined

\* const { mocks = false } = optionsData
mocksOption(data) ==
  IF GetProp(data, "mocks") = Undefined THEN Bool(FALSE) ELSE GetProp(data, "mocks")

\* the branch of the then callback that makes executableSchema: what it throws
executableSchemaError(data) ==
  IF Truthy(mocksOption(data))
  THEN configError(TRUE, mocksOption(data))
  ELSE IF instanceofGraphQLSchema(GetProp(data, "schema")) THEN Undefined
  ELSE IF ~Truthy(GetProp(data, "resolvers"))
  THEN Throw("Error", "resolvers is required option if mocks is not provided")
  ELSE IF ~Truthy(GetProp(data, "connectors"))
  THEN Throw("Error", "connectors is a required option if mocks is not provided")
  ELSE Undefined

\* the then callback: what it throws, Undefined when it reaches graphqlHTTP
thenCallback(data) ==
  IF IsThrow(optionsError(data)) THEN optionsError(data)
  ELSE executableSchemaError(data)

\* graphqlHTTP(...)(req, res): the request answered by express-graphql
graphqlHTTP == [sent |-> TRUE, status |-> 200, message |-> ""]

\* the option values of the requests
OptionsValues ==
  { Null, Undefined, Num(5), Str("schema"), Bool(TRUE), Array(<<>>), EmptyObject,
    Lit([schema |-> Str("")]),
    Lit([schema |-> Str("typeDefs")]),
    Lit([schema |-> Str("typeDefs"), resolvers |-> EmptyObject]),
    Lit([schema |-> Str("typeDefs"), resolvers |-> EmptyObject, connectors |-> EmptyObject]),
    Lit([schema |-> Str("typeDefs"), mocks |-> Bool(TRUE)]),
    Lit([schema |-> Str("typeDefs"), mocks |-> MocksScalars]),
    Lit([schema |-> Str("typeDefs"), mocks |-> MocksNotFunction]),
    Lit([schema |-> GraphQLSchemaInstance]) }
\* the values, and promises for them: fulfilled, fulfilled later, never settled
OptionsResults ==
  OptionsValues
    \cup {Promise(state, data) : state \in {"fulfilled", "pending", "never"},
                                 data \in OptionsValues}
    \cup {Promise("rejected", Throw("Error", "no options"))}
\* the arguments of apolloServer: options, or a function of the request
ServerOptions ==
  OptionsResults \cup {Const(result) : result \in OptionsResults}
                 \cup {Throwing("options failed")}

\* the handler is called with a request: the executor of its promise runs
Request ==
  /\ optionsData.state = "none"
  /\ optionsData' = newPromise(optionsOrCall(options))
  /\ UNCHANGED <<options, httpResponse>>
  /\ UNCHANGED <<mockVars, generatorVars>>

\* a promise the options function returned is fulfilled
OptionsFulfilled ==
  /\ optionsData.state = "pending"
  /\ optionsData' = [optionsData EXCEPT !.state = "fulfilled"]
  /\ UNCHANGED <<options, httpResponse>>
  /\ UNCHANGED <<mockVars, generatorVars>>

\* the then callback runs on the options: it throws, which rejects the
\* promise then() returned and sends nothing, or graphqlHTTP answers
HandleOptions ==
  /\ optionsData.state = "fulfilled"
  /\ IF IsThrow(thenCallback(optionsData.val))
     THEN /\ optionsData' = [state |-> "rejected", val |-> thenCallback(optionsData.val)]
          /\ UNCHANGED httpResponse
     ELSE /\ optionsData' = [state |-> "done", val |-> optionsData.val]
          /\ httpResponse' = graphqlHTTP
  /\ UNCHANGED options
  /\ UNCHANGED <<mockVars, generatorVars>>

ServerNext == Request \/ OptionsFulfilled \/ HandleOptions

ServerInit ==
  /\ MockStart([resolve |-> ResolversNone, resolveType |-> ResolveTypesNone])
  /\ GeneratorIdle
  /\ \E opts \in ServerOptions : ServerIdle(opts)

\* the event loop runs every callback that is ready
ServerSpec == ServerInit /\ [][ServerNext]_vars /\ WF_vars(ServerNext)

(***************************************************************************)
(* Properties.  They are stated on the invocation made last: its inputs    *)
(* are in call, its outcome in out, inflight and rootValue, the calls it   *)
(* made in trace.                                                          *)
(***************************************************************************)
Called == call # NoCall
CallFieldName == call.id[2]
CallFieldType == getNullableType(FieldType(call.id))
CallNamedType == getNamedType(FieldType(call.id))
Installed == resolve[call.id]
Preserved == Installed.r = "preserved"

\* the root mockType was given: the updated root of the root-field special
\* case, or else the root of the invocation
UpdatedRoots == {i \in DOMAIN trace : trace[i].call = "updatedRoot"}
EffectiveRoot ==
  IF UpdatedRoots # {} THEN trace[CHOOSE i \in UpdatedRoots : TRUE].root ELSE call.root

\* what the mock resolver of the field returned or threw
MockValue == IF Preserved /\ ~IsThrow(out) THEN inflight.mock ELSE out

\* root is present and root[fieldName] is defined
ExistingDefined ==
  Truthy(EffectiveRoot) /\ TypeOf(GetProp(EffectiveRoot, CallFieldName)) # "undefined"
\* the existing value: root[fieldName], called if it is a function
ExistingValue ==
  LET existing == GetProp(EffectiveRoot, CallFieldName)
  IN IF TypeOf(existing) = "function"
     THEN Apply(existing.body, EffectiveRoot, call.args, call.ctx)
     ELSE existing
HasRegistryEntry == CallNamedType.name \in DOMAIN mockFunctionMap
\* the generic value: what the registry factory of the named type returns
GenericValue ==
  Apply(mockFunctionMap[CallNamedType.name].body, EffectiveRoot, call.args, call.ctx)

RecordMergeCase ==
  /\ Called
  /\ ExistingDefined
  /\ HasRegistryEntry
  /\ ExistingValue.k = "object"

\* C1: when root defines the field with a record-shaped value and the named
\* type has a registry entry, the mock resolver's result has every key of the
\* existing value with the existing value's value, and every key only the
\* generic value has with the generic value's value.
StepOneRecordMerge ==
  RecordMergeCase =>
    /\ ~IsThrow(MockValue)
    /\ \A key \in Keys(ExistingValue) :
         GetProp(MockValue, key) = GetProp(ExistingValue, key)
    /\ \A key \in Keys(GenericValue) \ Keys(ExistingValue) :
         GetProp(MockValue, key) = GetProp(GenericValue, key)

\* the calls of the log that satisfy P
Calls(P(_)) == {i \in DOMAIN trace : P(trace[i])}
\* the invocations of mockType, and those for the type given
MockTypeCalls == Calls(LAMBDA e : e.call = "mockType")
MockTypeCallsFor(type) ==
  Calls(LAMBDA e : IF e.call = "mockType" THEN e.type = type ELSE FALSE)
IsScalar(v) == v.k \in {"number", "string", "boolean"}

\* C2: whenever root is present and root[fieldName] is defined, the resolver
\* takes the existing-value step whatever the field type; unless the existing
\* value is a MockList no element resolver, registry entry of the field's type
\* or default generator runs, and an existing scalar or null is the result,
\* unchanged, without the registry factory being called.
ExistingValuePrecedence ==
  (Called /\ ExistingDefined) =>
    /\ trace[CHOOSE i \in MockTypeCalls : \A j \in MockTypeCalls : i <= j].branch = "existing"
    /\ ExistingValue.k # "MockList" =>
         /\ Cardinality(MockTypeCalls) = 1
         /\ Calls(LAMBDA e : e.call \in {"registry", "randomType", "MockList.mock",
                                         "wrappedFunction"}) = {}
         /\ ~HasRegistryEntry => MockValue = ExistingValue
    /\ (IsScalar(ExistingValue) \/ ExistingValue.k = "null") =>
         /\ MockValue = ExistingValue
         /\ Calls(LAMBDA e : e.call = "generic") = {}

\* root[fieldName] is a function that returned a number to a field whose type
\* has a registry entry that makes another number
ExistingValuePrecedenceWitness ==
  /\ Called
  /\ ExistingDefined
  /\ HasRegistryEntry
  /\ TypeOf(GetProp(EffectiveRoot, CallFieldName)) = "function"
  /\ ExistingValue.k = "number"
  /\ GenericValue.k = "number"
  /\ GenericValue # ExistingValue
  /\ MockValue = ExistingValue

RECURSIVE AllKeys(_)
\* the names of the properties v has, own (enumerable or not) or inherited
AllKeys(v) ==
  IF ~Truthy(v) THEN {} ELSE DOMAIN OwnProps(v) \cup AllKeys(GetPrototypeOf(v))

\* the two values the composed resolver of preserve mode merges
MockedValue == Awaited(inflight.mock)
ResolvedValue == Awaited(inflight.real)
\* the composed resolver's promise is fulfilled
FannedIn ==
  /\ Called
  /\ Preserved
  /\ out.k = "promise"
  /\ out.state = "fulfilled"

\* C3: under the Preserve flag, for a field with a real resolver, when the mock
\* value and the real value are both record-shaped the composed resolver's
\* result has, for every key, the real value's property if the real value has
\* one (own, enumerable or not, or inherited) and otherwise the mock value's;
\* the result's keys are those of the two values.
PreserveRecordMerge ==
  (FannedIn /\ isObject(MockedValue) /\ isObject(ResolvedValue)) =>
    /\ out.val.k = "object"
    /\ DOMAIN OwnProps(out.val) = AllKeys(ResolvedValue) \cup AllKeys(MockedValue)
    /\ \A key \in AllKeys(ResolvedValue) :
         GetProp(out.val, key) = GetProp(ResolvedValue, key)
    /\ \A key \in AllKeys(MockedValue) \ AllKeys(ResolvedValue) :
         GetProp(out.val, key) = GetProp(MockedValue, key)

\* a real record with a non-enumerable property the mock record has another
\* value for, and a mock record with a key the real record lacks, were merged
PreserveRecordMergeWitness ==
  /\ FannedIn
  /\ isObject(MockedValue)
  /\ isObject(ResolvedValue)
  /\ \E key \in DOMAIN OwnProps(ResolvedValue) \cap Keys(MockedValue) :
       /\ ~OwnProps(ResolvedValue)[key].e
       /\ GetProp(MockedValue, key) # GetProp(ResolvedValue, key)
  /\ Keys(MockedValue) \ AllKeys(ResolvedValue) # {}

\* what the real resolver of the field returns for the invocation, awaited
RealResult ==
  Apply(Installed.oldResolver.fn.body, rootValue, call.args, call.ctx)
RealValue == Awaited(RealResult)
\* the composed resolver is done: it threw, or its promise is fulfilled
ComposedDone ==
  /\ Called
  /\ Preserved
  /\ IF IsThrow(out) THEN Settled(RealResult) ELSE out.state = "fulfilled"
\* what the composed resolver yields: what it threw, or what its promise holds
ComposedResult == IF IsThrow(out) THEN out ELSE out.val
\* what the mock resolver yields: what it threw, or its value awaited
ComposedMock == IF IsThrow(out) THEN out ELSE MockedValue

\* C4: under the Preserve flag, for every field with a real resolver, whenever
\* the mock value and the real value are not both record-shaped, the composed
\* resolver's result is the real value if the real value is not undefined
\* (null, scalars and arrays included) and the mock value only if it is.
PreserveNonRecordRule ==
  (ComposedDone /\ ~(isObject(ComposedMock) /\ isObject(RealValue))) =>
    ComposedResult = IF RealValue.k # "undefined" THEN RealValue ELSE ComposedMock

\* the field is on the query or mutation root type
OnRootType == call.id[1] \in {getQueryType, getMutationType}
\* what the registry's factory for the root type returns for the invocation
RootMade == Apply(mockFunctionMap[call.id[1]].body, call.root, call.args, call.ctx)
\* the sub-entry of that result for the field
RootSubEntry == GetProp(RootMade, CallFieldName)
\* the registry has an entry for the root type and its result defines a
\* sub-entry for the field
DefinesSubEntry ==
  /\ call.id[1] \in DOMAIN mockFunctionMap
  /\ RootMade.k \in ObjectLike
  /\ TypeOf(RootSubEntry) # "undefined"
\* the sub-entry evaluated: called with the invocation's root, args and
\* context if it is a function
RootSubValue ==
  IF TypeOf(RootSubEntry) = "function"
  THEN Apply(RootSubEntry.body, EffectiveRoot, call.args, call.ctx)
  ELSE RootSubEntry
\* the mock resolver the installer made for the field
InstalledMock == IF Preserved THEN Installed.mockResolver ELSE Installed

\* C5: for a field of the query or mutation root type, if the registry has an
\* entry for the root type whose result defines a sub-entry for the field, the
\* root-field resolver is installed and a scalar value of the sub-entry,
\* evaluated with the invocation's args and context, is what the field
\* resolves to; otherwise the ordinary mock resolver of the field's type is
\* installed.
RootFieldSpecialCase ==
  (Called /\ OnRootType) =>
    IF DefinesSubEntry
    THEN /\ InstalledMock.r = "rootMock"
         /\ IsScalar(RootSubValue) => MockValue = RootSubValue
    ELSE InstalledMock.r = "mockType"

\* a field of list type is resolved and root has no value for it
DefaultListCase ==
  /\ Called
  /\ ~ExistingDefined
  /\ CallFieldType.w = "list"
\* the type of the elements of the field's list, and of theirs
ElementType == ofType(CallFieldType)
InnerElementType == ofType(getNullableType(ElementType))

\* C6: for a field of list type with no existing value on root (and so no
\* MockList), the mock resolver returns an array of exactly 2 elements, each
\* made by an invocation of its own of the resolver for the element type; for
\* a list of lists each of the 2 elements is again such an array of 2.
DefaultListArity ==
  DefaultListCase =>
    /\ MockValue.k = "array"
    /\ Len(MockValue.els) = 2
    /\ Cardinality(MockTypeCallsFor(ElementType)) = 2
    /\ Calls(LAMBDA e : e.call = "MockList.mock") = {}
    /\ getNullableType(ElementType).w = "list" =>
         /\ \A i \in 1..2 : /\ MockValue.els[i].k = "array"
                            /\ Len(MockValue.els[i].els) = 2
         /\ Cardinality(MockTypeCallsFor(InnerElementType)) = 4

\* a list of lists was made by default, and the two elements of its first
\* list came out different
DefaultListArityWitness ==
  /\ DefaultListCase
  /\ getNullableType(ElementType).w = "list"
  /\ MockValue.k = "array"
  /\ MockValue.els[1].els[1] # MockValue.els[1].els[2]

\* root[fieldName] of a field of list type is a function that returns a
\* MockList
MockListCase ==
  /\ Called
  /\ ExistingDefined
  /\ CallFieldType.w = "list"
  /\ TypeOf(GetProp(EffectiveRoot, CallFieldName)) = "function"
  /\ ExistingValue.k = "MockList"
\* its length is a fixed integer
FixedLength ==
  /\ ExistingValue.len.k = "number"
  /\ ExistingValue.len.den = 1
  /\ ExistingValue.len.n >= 0
\* the expansions of MockLists the invocation made
MockListCalls == Calls(LAMBDA e : e.call = "MockList.mock")

\* C7: a MockList with a fixed integer length n and no element generator
\* yields an array of exactly n elements, the resolver for the element type
\* of the list being invoked once per index, n times in all; n is that of the
\* MockList made for this invocation, from its arguments where it depends
\* on them.
FixedMockListLength ==
  (MockListCase /\ FixedLength /\ TypeOf(ExistingValue.wrappedFunction) = "undefined") =>
    /\ MockValue.k = "array"
    /\ Len(MockValue.els) = ExistingValue.len.n
    /\ Cardinality(MockTypeCallsFor(ElementType)) = ExistingValue.len.n
    /\ Cardinality(MockListCalls) = 1

\* a MockList whose length is the argument l of the invocation, 3, was
\* expanded to 3 elements
FixedMockListLengthWitness ==
  /\ MockListCase
  /\ FixedLength
  /\ TypeOf(ExistingValue.wrappedFunction) = "undefined"
  /\ ExistingValue.len = GetProp(call.args, "l")
  /\ MockValue.k = "array"
  /\ Len(MockValue.els) = 3

\* the expansions of MockLists whose length is a [low, high] pair
PairCalls ==
  Calls(LAMBDA e : IF e.call = "MockList.mock" THEN e.len.k = "array" ELSE FALSE)

\* the pair is one the descriptor admits: 0 <= low <= high
ValidPair(len) == 0 <= len.els[1].n /\ len.els[1].n <= len.els[2].n

\* C8: every expansion of a MockList with a [low, high] pair, 0 <= low <=
\* high, makes an array whose length L is an integer with low <= L <= high,
\* drawn at the expansion: each expansion takes a Math.random() draw of its
\* own, and the array the field resolves to has the length drawn.
PairMockListLength ==
  Called =>
    /\ \A i \in PairCalls :
         ValidPair(trace[i].len) =>
           /\ trace[i].len.els[1].n <= trace[i].length
           /\ trace[i].length <= trace[i].len.els[2].n
    /\ \A i, j \in PairCalls : i # j => trace[i].draw # trace[j].draw
    /\ (MockListCase /\ ExistingValue.len.k = "array" /\ ValidPair(ExistingValue.len)) =>
         /\ MockValue.k = "array"
         /\ Len(MockValue.els) = trace[CHOOSE i \in PairCalls : \A j \in PairCalls : i <= j].length

\* two MockLists with the same pair were expanded in one invocation, one to
\* the length low and one to the length high
PairMockListLengthWitness ==
  /\ Called
  /\ \E i, j \in PairCalls :
       /\ trace[i].len = trace[j].len
       /\ trace[i].len.els[1].n < trace[i].len.els[2].n
       /\ trace[i].length = trace[i].len.els[1].n
       /\ trace[j].length = trace[j].len.els[2].n

\* the MockList of the field has a fixed length and an element generator
GeneratorCase ==
  /\ MockListCase
  /\ FixedLength
  /\ TypeOf(ExistingValue.wrappedFunction) = "function"
\* what the element generator returns for the invocation
Generated ==
  Apply(ExistingValue.wrappedFunction.body, EffectiveRoot, call.args, call.ctx)
\* the calls of element generators the invocation made
GeneratorCallsMade == Calls(LAMBDA e : e.call = "wrappedFunction")

\* C9: MockList(n, g) yields n elements, g being called once per index with
\* the root, args and context of the invocation; a result of g that is no
\* MockList is the element as it is, and a MockList(m) result is expanded
\* against the element type one level down, to m values of the element
\* resolver (or of its own generator), so that n lists of m come out.
GeneratorMockList ==
  GeneratorCase =>
    /\ MockValue.k = "array"
    /\ Len(MockValue.els) = ExistingValue.len.n
    /\ \A c \in GeneratorCallsMade :
         /\ trace[c].root = EffectiveRoot
         /\ trace[c].args = call.args
         /\ trace[c].ctx = call.ctx
    /\ Generated.k # "MockList" =>
         /\ Cardinality(GeneratorCallsMade) = ExistingValue.len.n
         /\ (IsScalar(Generated) \/ ~HasRegistryEntry) =>
              \A i \in 1..ExistingValue.len.n : MockValue.els[i] = Generated
    /\ (Generated.k = "MockList" /\ Generated.len.k = "number") =>
         /\ \A i \in 1..ExistingValue.len.n :
              /\ MockValue.els[i].k = "array"
              /\ Len(MockValue.els[i].els) = Generated.len.n
         /\ IF TypeOf(Generated.wrappedFunction) = "function"
            THEN Cardinality(GeneratorCallsMade) =
                   ExistingValue.len.n + (ExistingValue.len.n * Generated.len.n)
            ELSE /\ Cardinality(GeneratorCallsMade) = ExistingValue.len.n
                 /\ Cardinality(MockTypeCallsFor(InnerElementType)) =
                      ExistingValue.len.n * Generated.len.n

\* MockList(2, () => MockList(3)) on a list of lists gave 2 lists of 3
GeneratorMockListWitness ==
  /\ GeneratorCase
  /\ Generated.k = "MockList"
  /\ TypeOf(Generated.wrappedFunction) = "undefined"
  /\ ExistingValue.len.n = 2
  /\ Generated.len = Num(3)
  /\ MockValue.k = "array"
  /\ Len(MockValue.els[2].els) = 3

\* the picks of a concrete type the union and interface steps made, and the
\* i-th of them
RandomTypeCalls == Calls(LAMBDA e : e.call = "randomType")
RandomTypeCall(i) ==
  CHOOSE c \in RandomTypeCalls : Cardinality({d \in RandomTypeCalls : d <= c}) = i

\* the elements of a field of union or interface type were generated by the
\* union or interface step and the installed fallback resolver was applied
\* to them
StampedCase ==
  /\ Called
  /\ DefaultListCase
  /\ CallNamedType.name \in AbstractTypes
  /\ resolveType[CallNamedType.name] = FallbackResolveType
  /\ concrete # <<>>

\* C10: for every registry, the installed fallback abstract-type resolver
\* applied to a value the union or interface step generated returns exactly
\* the concrete type the step picked for that value.
StampReadBack ==
  StampedCase =>
    /\ Cardinality(RandomTypeCalls) = Len(concrete)
    /\ \A i \in 1..Len(concrete) : concrete[i] = GType(trace[RandomTypeCall(i)].of)

\* the field's type, null-stripped, is a scalar that has no registry entry
\* and no default generator, and root has no value for the field
UnknownScalarCase ==
  /\ Called
  /\ ~ExistingDefined
  /\ CallFieldType.w = "named"
  /\ CallFieldType.name \in ScalarTypes
  /\ CallFieldType.name \notin DOMAIN mockFunctionMap
  /\ ~defaultMockMapHas(CallFieldType.name)

\* C11: resolving a field of a scalar type with no registry entry, no default
\* generator and no existing value throws the error 'No mock defined for type
\* "<TypeName>"'; setup has succeeded (the schema is mocked, no setup error),
\* and the failure is what the field's resolver yields, no value in its place.
UnknownScalarThrows ==
  UnknownScalarCase =>
    /\ out = Throw("Error", "No mock defined for type \"" \o CallFieldType.name \o "\"")
    /\ MockValue = out
    /\ phase = "mocked"
    /\ setupError = Undefined
    /\ inflight = NoInflight

\* the resolver of a field of the scalar MissingMockType threw
UnknownScalarThrowsWitness ==
  /\ UnknownScalarCase
  /\ CallFieldType.name = "MissingMockType"
  /\ IsThrow(out)

\* the messages of the configuration errors
NoSchemaError == Throw("Error", "Must provide schema to mock")
NotObjectError == Throw("Error", "mocks must be of type Object")
NotFunctionError(name) == Throw("Error", "mockFunctionMap[" \o name \o "] must be a function")
\* the registry argument is no object: null, a scalar or an array
NotAnObject(mocks) == mocks.k \in {"null", "number", "string", "boolean", "array"}
\* the entries of a registry that are no functions
NotFunctions(mocks) == {name \in Keys(mocks) : TypeOf(GetProp(mocks, name)) # "function"}
\* the setup call threw error and changed nothing of the schema
ThrownUntouched(error) ==
  /\ phase' = "failed"
  /\ setupError' = error
  /\ UNCHANGED <<resolve, resolveType, mockFunctionMap, preserveResolvers>>

\* what the setup call must do when its arguments are misconfigured
ConfigOutcome(schemaGiven, mocks) ==
  IF ~schemaGiven THEN ThrownUntouched(NoSchemaError)
  ELSE IF NotAnObject(mocks) THEN ThrownUntouched(NotObjectError)
  ELSE IF mocks.k = "object" /\ NotFunctions(mocks) # {}
  THEN \E name \in NotFunctions(mocks) : ThrownUntouched(NotFunctionError(name))
  ELSE TRUE

\* C12: a setup call without schema, with a registry that is no object, or
\* with a registry entry that is no function throws the configuration error
\* of that case within the call, and no field resolver and no abstract-type
\* resolver of the schema is modified by the call.
ConfigErrorsSynchronous ==
  [][\A schemaGiven \in BOOLEAN, mocks \in MockMaps, preserve \in BOOLEAN :
       AddMockFunctionsToSchema(schemaGiven, mocks, preserve)
         => ConfigOutcome(schemaGiven, mocks)]_vars

\* a setup call on a schema with resolvers attached threw because of a
\* registry entry that is no function
ConfigErrorsSynchronousWitness ==
  /\ phase = "failed"
  /\ setupError = NotFunctionError("Int")
  /\ resolve = ResolversA

\* a plain keyed object: an object literal (an omitted registry argument
\* stands for the empty one)
PlainKeyedObject(mocks) ==
  IF mocks.k = "object" THEN mocks.proto = ObjectPrototype ELSE mocks.k = "undefined"

\* C13: the setup call throws 'mocks must be of type Object' for every
\* registry argument that is no plain keyed object (arrays, null, scalars,
\* functions, other non-plain objects) and for no plain keyed object.
NonPlainRegistryRejected ==
  [][\A mocks \in MockMaps, preserve \in BOOLEAN :
       AddMockFunctionsToSchema(TRUE, mocks, preserve)
         => (setupError' = NotObjectError <=> ~PlainKeyedObject(mocks))]_vars

\* root[fieldName] is a function that constructs a MockList
ConstructsMockList ==
  /\ Called
  /\ ExistingDefined
  /\ TypeOf(GetProp(EffectiveRoot, CallFieldName)) = "function"
  /\ GetProp(EffectiveRoot, CallFieldName).body.op \in {"MockList", "MockListArg"}
\* the second argument given to the constructor
SecondArgument == GetProp(EffectiveRoot, CallFieldName).body.wrapped
MockListError ==
  Throw("Error", "Second argument to MockList must be a function or undefined")

\* C14: constructing a MockList fails with 'Second argument to MockList must
\* be a function or undefined' exactly when the second argument is given
\* (anything but undefined, null included) and is not a function; with no
\* second argument or with a function the construction succeeds and the
\* MockList is expanded to an array.
MockListConstructor ==
  ConstructsMockList =>
    IF TypeOf(SecondArgument) \in {"undefined", "function"}
    THEN MockValue # MockListError /\ ExistingValue.k = "MockList"
    ELSE MockValue = MockListError

\* the constructor was given null and the field failed with the error
MockListConstructorWitness ==
  /\ ConstructsMockList
  /\ SecondArgument = Null
  /\ out = MockListError

\* a mock resolver of the field id: mockType(...) or the root-field resolver
IsMockResolverOf(resolver, id) ==
  resolver \in {MockResolver(id), RootMockResolver(id)}
\* what the installer leaves on the field id, given what was there
InstalledBy(old, new, id, preserve) ==
  IF startsWith__(id[1]) \/ ~IsObjectType(id[1]) THEN new = old
  ELSE IF ~preserve \/ old = NoResolver THEN IsMockResolverOf(new, id)
  ELSE /\ new.r = "preserved"
       /\ new.oldResolver = old
       /\ IsMockResolverOf(new.mockResolver, id)

\* C15: when addMockFunctionsToSchema returns, every field of every object
\* type whose name does not start with '__' carries an installed resolver:
\* the mock resolver if the Preserve flag is off or the field had no resolver,
\* else the composed function over the mock resolver and the original
\* resolver, composed once; the fields of the introspection types keep what
\* they had. An invocation of a composed function whose mock resolver returned
\* calls the original resolver.
InstallerPolicy ==
  /\ [][\A mocks \in MockMaps, preserve \in BOOLEAN :
          (AddMockFunctionsToSchema(TRUE, mocks, preserve) /\ phase' = "mocked") =>
            \A id \in TypeMapFieldIds :
              InstalledBy(resolve[id], resolve'[id], id, preserve)]_vars
  /\ []((Called /\ Preserved /\ inflight # NoInflight) =>
          \E i \in DOMAIN trace :
            /\ trace[i].call = "oldResolver"
            /\ trace[i].of = CallFieldName)

\* set up with the Preserve flag: a field that had a resolver carries the
\* composed function, one that had none the mock resolver, and the
\* introspection fields their own
InstallerPolicyWitness ==
  /\ phase = "mocked"
  /\ preserveResolvers
  /\ resolve[<<"RootQuery", "returnInt">>].r = "preserved"
  /\ resolve[<<"RootQuery", "returnInt">>].oldResolver = RealResolver(Const(Num(5)))
  /\ resolve[<<"RootQuery", "returnBoolean">>] = MockResolver(<<"RootQuery", "returnBoolean">>)
  /\ resolve[<<"__Schema", "types">>] = IntrospectionResolver
  /\ Called
  /\ call.id = <<"RootQuery", "returnInt">>
  /\ inflight # NoInflight

\* the existing resolveType of an abstract type is kept: the Preserve flag is
\* set, there is one, and it declares at least one parameter
KeepsResolveType(old, preserve) ==
  IF preserve /\ old.r = "custom" THEN old.len >= 1 ELSE FALSE
\* the abstract types some visited field has as its named type
ReferencedAbstractTypes ==
  {getNamedType(FieldType(id)).name : id \in FieldIds} \cap AbstractTypes

RegistryCase ==
  /\ Called
  /\ MockTypeCalls # {}
  /\ ~ExistingDefined
  /\ CallFieldType.w = "named"
  /\ HasRegistryEntry
\* the calls of registry factories the invocation made
RegistryCalls == Calls(LAMBDA e : e.call = "registry")

\* C17: for a field of non-list type whose name has a registry entry, on a
\* root without a value for the field, the mock resolver returns exactly what
\* the registry factory returns, calling it once with the root, args and
\* context of the invocation and merging nothing; and wherever the resolver
\* runs for such a type without an existing value (elements of lists
\* included) it takes the registry entry, not the empty object, a random
\* member or enum value, or a default generator.
RegistryUsedDirectly ==
  /\ RegistryCase =>
       /\ MockValue = GenericValue
       /\ Cardinality(RegistryCalls) = 1
       /\ \A i \in RegistryCalls :
            /\ trace[i].of = CallNamedType.name
            /\ trace[i].root = EffectiveRoot
            /\ trace[i].args = call.args
            /\ trace[i].ctx = call.ctx
       /\ Calls(LAMBDA e : e.call \in {"generic", "randomType"}) = {}
       /\ Cardinality(MockTypeCalls) = 1
  /\ \A i \in MockTypeCalls :
       (/\ trace[i].branch \notin {"existing", "list", "TypeError"}
        /\ getNullableType(trace[i].type).name \in DOMAIN mockFunctionMap)
         => trace[i].branch = "registry"

\* the enum field resolved to what the registry entry of the enum makes, the
\* factory called once
RegistryUsedDirectlyWitness ==
  /\ RegistryCase
  /\ CallNamedType.name = "SomeEnum"
  /\ out = Str("C")
  /\ Cardinality(RegistryCalls) = 1

RECURSIVE Nullable(_)
\* the type with every NonNull wrapper taken off, inside lists too
Nullable(type) ==
  IF type.w = "nonnull" THEN Nullable(type.ofType)
  ELSE IF type.w = "list" THEN List(Nullable(type.ofType))
  ELSE type
RECURSIVE Required(_)
\* the type with a NonNull wrapper put on at every level
Required(type) ==
  IF type.w = "nonnull" THEN Required(type.ofType)
  ELSE IF type.w = "list" THEN NonNull(List(Required(type.ofType)))
  ELSE NonNull(type)

\* what the resolver for the type does in the context of the invocation, for
\* the draws rs: its value or error, the draws it takes, and the calls it
\* makes with the branch of each resolver call
Outcome(type, rs) ==
  LET res == mockType(type, CallFieldName, EffectiveRoot, call.args, call.ctx, NewState(rs))
  IN [v |-> res.v,
      draws |-> res.st.n,
      calls |-> [i \in DOMAIN res.st.log |->
                   IF res.st.log[i].call = "mockType" THEN res.st.log[i].branch
                   ELSE res.st.log[i].call]]
\* for draws that make the value the invocation made, the resolver for the
\* type of the field, for the type without any NonNull and for the type with
\* NonNull everywhere do the same
SameDispatch ==
  \E rs \in Streams :
    /\ Outcome(FieldType(call.id), rs).v = MockValue
    /\ Outcome(Nullable(FieldType(call.id)), rs) = Outcome(FieldType(call.id), rs)
    /\ Outcome(Required(FieldType(call.id)), rs) = Outcome(FieldType(call.id), rs)
\* the value the invocation has from a factory or from root[fieldName], if any
SuppliedValues ==
  IF ExistingDefined THEN {ExistingValue}
  ELSE IF CallFieldType.w = "named" /\ HasRegistryEntry THEN {GenericValue}
  ELSE {}
\* nullability does not matter, a value of one of the kinds given coming from
\* nowhere but a factory or an existing value
NullabilityIrrelevantFor(nullKinds) ==
  (Called /\ MockTypeCalls # {}) =>
    /\ SameDispatch
    /\ (/\ FieldType(call.id).w = "nonnull"
        /\ ~ExistingDefined
        /\ SuppliedValues = {Null}) => MockValue = Null
    /\ MockValue.k \in {"null", "undefined"} =>
         \E v \in SuppliedValues : v.k \in nullKinds

\* C18 as stated: the resolver for NonNull(T) takes the same branches and
\* yields the same outcome as the one for T, inside lists too; a registry
\* factory returning null yields null even for a NonNull field; and the
\* resolver returns null or undefined only if a factory or the existing
\* value returned null.
NullabilityIrrelevantNullOnly == NullabilityIrrelevantFor({"null"})

\* C18, null or undefined: as above, the resolver returning null or
\* undefined only if a factory or the existing value returned null or
\* undefined.
NullabilityIrrelevant == NullabilityIrrelevantFor({"null", "undefined"})

\* the registry factory of String returned null and the field of type
\* NonNull(String) resolved to null
NullabilityIrrelevantWitness ==
  /\ Called
  /\ MockTypeCalls # {}
  /\ call.id = <<"RootQuery", "returnNonNullString">>
  /\ SuppliedValues = {Null}
  /\ out = Null

\* the mock resolver ran for a field whose named type is Int, Boolean or
\* String and has no registry entry, on a root without a value for the field
DefaultCase ==
  /\ Called
  /\ MockTypeCalls # {}
  /\ ~ExistingDefined
  /\ ~HasRegistryEntry
  /\ CallNamedType.name \in {"Int", "Boolean", "String"}
\* v is what the default generator of the scalar type may make
IsDefaultOf(name, v) ==
  CASE name = "Int" -> v.k = "number" /\ v.den = 1 /\ -100 <= v.n /\ v.n <= 100
    [] name = "Boolean" -> v.k = "boolean"
    [] name = "String" -> v = Str("Hello World")
    [] OTHER -> TRUE
RECURSIVE AllDefaultsOf(_, _)
\* v, or every element of v if v is an array, however nested, is such a value
AllDefaultsOf(name, v) ==
  IF v.k = "array" THEN \A i \in DOMAIN v.els : AllDefaultsOf(name, v.els[i])
  ELSE IsDefaultOf(name, v)

\* C19: a field without existing value whose type has no registry entry
\* resolves, if of type Int, to an integer from -100 to 100, if of type
\* Boolean, to a boolean, and if of type String, to 'Hello World' (the
\* elements of a list of such a type likewise), whatever registry the setup
\* call was given for other types.
DefaultScalarGenerators ==
  DefaultCase =>
    /\ ~IsThrow(MockValue)
    /\ AllDefaultsOf(CallNamedType.name, MockValue)
    /\ CallFieldType.w = "named" => MockValue.k # "array"

\* with a registry that has an entry for String and none for Int, the field
\* of type Int resolved to the default for the draw 1/3, Math.round(66.7) - 100
DefaultScalarGeneratorsWitness ==
  /\ DefaultCase
  /\ call.id = <<"RootQuery", "returnInt">>
  /\ "String" \in DOMAIN mockFunctionMap
  /\ out = Num(-33)

\* the errors the logger holds
LoggerErrors == IF Truthy(logger) THEN GetProp(logger, "errors").els ELSE <<>>
\* what the resolver the caller gave for the field returns or throws
UserOutcome(id) == CallResolver(resolveFunctions.of[id], Source(id), <<>>).v
\* the error of a resolver of the field that returned undefined, as logged
UndefinedError(id) ==
  Throw("Error", "Error in resolver " \o errorHint(id) \o "\nResolve function for \""
                 \o errorHint(id) \o "\" returned undefined")
\* the message begins with 'Error in resolver Type.field'
IsAbout(e, id) ==
  IF Len(e.s) < Len("Error in resolver " \o errorHint(id) \o "\n") THEN FALSE
  ELSE SubSeq(e.s, 1, Len("Error in resolver " \o errorHint(id) \o "\n"))
         = "Error in resolver " \o errorHint(id) \o "\n"
LoggedAbout(id) == {i \in DOMAIN LoggerErrors : IsAbout(LoggerErrors[i], id)}
FailedAbout(id) == {i \in DOMAIN response.errors : IsAbout(response.errors[i], id)}

\* C20: in a schema generateSchema built with forbidUndefinedInResolve and a
\* logger, a field whose resolver returned undefined has the error 'Resolve
\* function for "Type.field" returned undefined', with 'Error in resolver
\* Type.field' before it, in the logger exactly once and among the errors of
\* the query, and is null in the data; a field whose resolver returned a
\* defined value has that value in the data, whatever its siblings did, and
\* nothing about it is logged or among the errors.
UndefinedIsLogged ==
  (jsSchema.state = "built" /\ forbidUndefinedInResolve /\ Truthy(logger)) =>
    \A id \in DOMAIN response.data :
      TypeOf(resolveFunctions.of[id]) = "function" =>
        /\ UserOutcome(id).k = "undefined" =>
             /\ Cardinality(LoggedAbout(id)) = 1
             /\ \A i \in LoggedAbout(id) : LoggerErrors[i] = UndefinedError(id)
             /\ Cardinality(FailedAbout(id)) = 1
             /\ \A i \in FailedAbout(id) : response.errors[i] = UndefinedError(id)
             /\ response.data[id] = Null
        /\ (~IsThrow(UserOutcome(id)) /\ UserOutcome(id).k # "undefined") =>
             /\ LoggedAbout(id) = {}
             /\ FailedAbout(id) = {}
             /\ response.data[id] = UserOutcome(id)

\* species: () => undefined and stuff: () => 'stuff' were resolved: species is
\* null, stuff is 'stuff', and the logger holds the one error of species
UndefinedIsLoggedWitness ==
  /\ jsSchema.state = "built"
  /\ forbidUndefinedInResolve
  /\ LoggerErrors = <<UndefinedError(<<"RootQuery", "species">>)>>
  /\ <<"RootQuery", "stuff">> \in DOMAIN response.data
  /\ response.data[<<"RootQuery", "stuff">>] = Str("stuff")
  /\ response.data[<<"RootQuery", "species">>] = Null

(***************************************************************************)
(* The middleware.                                                         *)
(***************************************************************************)
Requested == optionsData.state # "none"
\* what the options function yields, directly or through a promise
YieldedOptions ==
  IF optionsOrCall(options).k = "promise" THEN optionsOrCall(options).val
  ELSE optionsOrCall(options)
\* the options function yields a value, now or when its promise is fulfilled
YieldsOptions ==
  /\ TypeOf(options) = "function"
  /\ ~IsThrow(optionsOrCall(options))
  /\ optionsOrCall(options).k = "promise"
       => optionsOrCall(options).state \in {"fulfilled", "pending"}
YieldsBadOptions == YieldsOptions /\ IsThrow(optionsError(YieldedOptions))
\* the message of the check the yielded options fail
FailedCheckMessage ==
  IF IsThrow(optionsError(YieldedOptions)) THEN optionsError(YieldedOptions).s ELSE ""
Answered500(message) ==
  httpResponse = [sent |-> TRUE, status |-> 500, message |-> message]

\* C21: a request to a middleware whose options function yields a
\* non-object, or an object without a schema, directly or through a promise,
\* is eventually answered with status 500 and the message of the failed
\* check; it is never left unanswered.
BadOptionsAnswered ==
  (Requested /\ YieldsBadOptions) ~> Answered500(FailedCheckMessage)

\* the same request is never answered at all: the callback's throw rejects
\* a promise nobody handles
BadOptionsUnanswered ==
  [](YieldsBadOptions => httpResponse = NothingSent)

(***************************************************************************)
(* The fan-out and fan-in of the composed resolver.                        *)
(***************************************************************************)
\* the calls of the real resolver, and of the field's mock resolution
OldResolverCalls == Calls(LAMBDA e : e.call = "oldResolver")
MockResolutionCalls ==
  Calls(LAMBDA e : IF e.call = "mockType" THEN e.fieldName = CallFieldName ELSE FALSE)
\* the composed resolver's result is available
Available == Called /\ Preserved /\ out.k = "promise" /\ out.state = "fulfilled"
\* both halves have completed
BothCompleted == Settled(inflight.mock) /\ Settled(inflight.real)
\* a half waits on a deferred computation that never completes
NeverCompletes ==
  \E half \in {"mock", "real"} :
    inflight[half].k = "promise" /\ inflight[half].state = "never"
StartedOnceEach ==
  Cardinality(OldResolverCalls) = 1 /\ Cardinality(MockResolutionCalls) = 1

\* C22: every invocation of the composed resolver of a field with a real
\* resolver starts the mock resolution and the real resolution exactly once
\* each; its result is available only when both have completed, never when
\* one of them waits on a deferred computation that never completes.
FanOutFanIn ==
  /\ (Called /\ Preserved) => StartedOnceEach
  /\ Available => BothCompleted
  /\ (Called /\ Preserved /\ NeverCompletes) => ~Available

\* the same, for the invocations whose mock resolution returned
FanOutFanInReturned ==
  /\ (Called /\ Preserved /\ ~IsThrow(MockValue)) => StartedOnceEach
  /\ Available => BothCompleted
  /\ (Called /\ Preserved /\ NeverCompletes) => ~Available
\* an invocation waits for ever on its real half, the mock half done
HangsOnRealHalf ==
  /\ Called /\ Preserved /\ inflight.active
  /\ Settled(inflight.mock)
  /\ inflight.real.k = "promise" /\ inflight.real.state = "never"

(***************************************************************************)
(* The root object of the root-field special case.                         *)
(***************************************************************************)
\* the invocation went through the root-field resolver up to the assignment
\* updatedRoot[fieldName] = ...
WroteUpdatedRoot == Called /\ UpdatedRoots # {}
\* the root object the real resolver of preserve mode was called with
RootsOfOldResolver == {trace[i].root : i \in OldResolverCalls}

\* C23: resolving a root field through the root-field special case leaves
\* the root object the caller supplied unchanged, and the real resolver of
\* the same field in preserve mode is called with the root as supplied.
SuppliedRootUnchanged ==
  WroteUpdatedRoot =>
    /\ rootValue = call.root
    /\ RootsOfOldResolver \subseteq {call.root}

\* the same when no root object is supplied: updatedRoot starts empty
AbsentRootUnchanged ==
  (WroteUpdatedRoot /\ ~Truthy(call.root)) =>
    /\ rootValue = call.root
    /\ RootsOfOldResolver \subseteq {call.root}
\* a supplied root object comes back with the sub-entry written into it
SuppliedRootWritten ==
  (WroteUpdatedRoot /\ Truthy(call.root)) =>
    rootValue = SetProp(call.root, CallFieldName, RootSubEntry)

(***************************************************************************)
(* The fallback resolveType with the Preserve flag off.                    *)
(***************************************************************************)
MockedWithoutPreserve == phase = "mocked" /\ ~preserveResolvers

DeclaredTypes(name) ==
  IF name \in UnionTypes THEN {getTypes(name)[i] : i \in DOMAIN getTypes(name)}
  ELSE {getPossibleTypes(name)[i] : i \in DOMAIN getPossibleTypes(name)}
\* the underlying values of the declared values of an enum
DeclaredValues(name) == {getValues(name)[i].value : i \in DOMAIN getValues(name)}
\* the mock resolver produced a value for a field without an existing value
\* and without a registry entry for its named type
GeneratedCase ==
  /\ Called
  /\ MockTypeCalls # {}
  /\ ~ExistingDefined
  /\ ~HasRegistryEntry
  /\ ~IsThrow(MockValue)
\* the values generated for the named type: the result, or its elements
GeneratedValues ==
  IF MockValue.k = "array" THEN {MockValue.els[i] : i \in DOMAIN MockValue.els}
  ELSE {MockValue}

\* C25: whenever the mock resolver produces a value for a field of union or
\* interface type with no existing value and no registry entry for the type,
\* every concrete type it picks is a declared member type of the union, or a
\* declared possible type of the interface, and every value made is a
\* record; for an enum type the value is the underlying value of a declared
\* enum value.
DeclaredPicks ==
  /\ (GeneratedCase /\ CallNamedType.name \in AbstractTypes) =>
       /\ Cardinality(RandomTypeCalls) =
            IF MockValue.k = "array" THEN Len(MockValue.els) ELSE 1
       /\ \A i \in RandomTypeCalls : trace[i].of \in DeclaredTypes(CallNamedType.name)
       /\ \A v \in GeneratedValues : v.k = "object"
  /\ (GeneratedCase /\ CallNamedType.name \in EnumTypes) =>
       /\ RandomTypeCalls = {}
       /\ GeneratedValues \subseteq DeclaredValues(CallNamedType.name)

\* the union step made two records of different member types, one of them
\* from a factory that returns null
DeclaredPicksWitness ==
  /\ GeneratedCase
  /\ CallNamedType.name \in UnionTypes
  /\ {trace[i].of : i \in RandomTypeCalls} = {"Bird", "Bee"}
  /\ "Bird" \in DOMAIN mockFunctionMap
  /\ mockFunctionMap["Bird"] = Const(Null)
  /\ MockValue.k = "array"
\* the enum step made the underlying value of the last declared value
DeclaredValueReached ==
  /\ GeneratedCase
  /\ CallNamedType.name \in EnumTypes
  /\ MockValue = Str("C")

(***************************************************************************)
(* The merge of an existing array with the registry's generic value.       *)
(***************************************************************************)
ArrayMergeCase ==
  /\ Called
  /\ ExistingDefined
  /\ HasRegistryEntry
  /\ ExistingValue.k = "array"
\* the calls of the registry factory the merge made
GenericCalls == Calls(LAMBDA e : e.call = "generic")

RECURSIVE ElementwiseMerged(_, _)
\* result is existing merged element by element: arrays pair by index,
\* records have their own values and the generic value's other keys, every
\* other element is as it was
ElementwiseMerged(result, existing) ==
  IF existing.k = "array"
  THEN /\ result.k = "array"
       /\ Len(result.els) = Len(existing.els)
       /\ \A i \in DOMAIN existing.els : ElementwiseMerged(result.els[i], existing.els[i])
  ELSE IF isObject(existing)
  THEN /\ result.k \in ObjectLike
       /\ \A key \in Keys(existing) : GetProp(result, key) = GetProp(existing, key)
       /\ \A key \in Keys(GenericValue) \ Keys(existing) :
            GetProp(result, key) = GetProp(GenericValue, key)
  ELSE result = existing

RECURSIVE RecordElements(_)
\* the number of record-shaped elements of an array, nested arrays included
RecordElements(existing) ==
  IF existing.k = "array"
  THEN IF existing.els = <<>> THEN 0
       ELSE RecordElements(Head(existing.els))
              + RecordElements(Array(Tail(existing.els)))
  ELSE IF isObject(existing) THEN 1 ELSE 0

\* C26: when the existing value is an array and the named type has a
\* registry entry, the result is an array of the same length and order whose
\* i-th element is the i-th existing element merged with a generic value,
\* nested arrays recursively; the registry factory is called once for each
\* record-shaped element and scalar elements are unchanged.
StepOneArrayMerge ==
  ArrayMergeCase =>
    /\ ~IsThrow(MockValue)
    /\ ElementwiseMerged(MockValue, ExistingValue)
    /\ Cardinality(GenericCalls) = RecordElements(ExistingValue)

\* the same, the factories that return null or undefined set aside
StepOneArrayMergeOnObjects ==
  (ArrayMergeCase /\ GenericValue.k \notin {"null", "undefined"}) =>
    /\ ~IsThrow(MockValue)
    /\ ElementwiseMerged(MockValue, ExistingValue)
    /\ Cardinality(GenericCalls) = RecordElements(ExistingValue)
\* a nested array with a record and a scalar was merged
StepOneArrayMergeReached ==
  /\ ArrayMergeCase
  /\ GenericValue.k = "object"
  /\ Cardinality(GenericCalls) = 1
  /\ MockValue.k = "array"
  /\ Len(MockValue.els) = 2
  /\ MockValue.els[1].k = "array"

(***************************************************************************)
(* MockList descriptors in results.                                        *)
(***************************************************************************)
RECURSIVE ContainsMockList(_)
\* the value is a MockList, or an array or record that holds one
ContainsMockList(v) ==
  CASE v.k = "MockList" -> TRUE
    [] v.k = "array" -> \E i \in DOMAIN v.els : ContainsMockList(v.els[i])
    [] v.k = "object" -> \E key \in DOMAIN v.p : ContainsMockList(v.p[key].v)
    [] v.k = "promise" -> ContainsMockList(v.val)
    [] OTHER -> FALSE

\* C27: the value an installed mock resolver returns is never a MockList and
\* never contains one, whether the MockList came from a callable field
\* entry, a plain field value, a registry factory or an element generator.
MockListConsumed ==
  (Called /\ MockTypeCalls # {}) => ~ContainsMockList(MockValue)

\* the same for the MockLists callable field entries and element generators
\* return on fields of list type
MockListConsumedFromFunctions ==
  MockListCase => ~ContainsMockList(MockValue)
\* the MockList that is the plain value of the field comes back as it is
PlainMockListReturned ==
  /\ Called
  /\ ExistingDefined
  /\ TypeOf(GetProp(EffectiveRoot, CallFieldName)) # "function"
  /\ MockValue.k = "MockList"
\* the MockList a registry factory returns comes back as it is
RegistryMockListReturned ==
  /\ Called
  /\ ~ExistingDefined
  /\ HasRegistryEntry
  /\ RegistryCalls # {}
  /\ MockValue.k = "MockList"

(***************************************************************************)
(* The [low, high] pairs of MockLists.                                     *)
(***************************************************************************)
\* C28: every MockList whose length is a [low, high] pair has 0 <= low <=
\* high, so no expansion sees a negative or inverted range.
PairDescriptorsValid ==
  Called => \A i \in PairCalls : ValidPair(trace[i].len)

\* a MockList with the pair [3, 1] was made and expanded, to 2 or 3 elements
InvertedPairExpanded ==
  /\ Called
  /\ \E i \in PairCalls :
       /\ trace[i].len = Array(<<Num(3), Num(1)>>)
       /\ trace[i].length \in {2, 3}
  /\ MockValue.k = "array"
\* a MockList with the pair [-1, 0] was made and its expansion failed on a
\* negative array length
NegativePairExpanded ==
  /\ Called
  /\ \E i \in PairCalls : trace[i].len = Array(<<Num(-1), Num(0)>>)
  /\ IsThrow(MockValue)

(***************************************************************************)
(* The objects the record merge works on.                                  *)
(***************************************************************************)
\* the calls of mergeObjects the invocation made
MergeCalls == Calls(LAMBDA e : e.call = "mergeObjects")
\* the merge of the existing record was done and did not throw
RecordMerged ==
  /\ RecordMergeCase
  /\ MergeCalls # {}
  /\ ~IsThrow(MockValue)

\* C29: the merge of a record-shaped existing value with the generic value
\* changes neither the existing value nor the object the registry factory
\* returned: after the call both are as they were, the result being a new
\* record.
MergeMutatesNothing ==
  RecordMerged =>
    /\ \A i \in MergeCalls : trace[i].b = ExistingValue
    /\ UpdatedRoots = {} => rootValue = call.root
    /\ \A i \in MergeCalls : trace[i].target = trace[i].a

\* the existing value is left as it was
MergeKeepsExisting ==
  RecordMerged =>
    /\ \A i \in MergeCalls : trace[i].b = ExistingValue
    /\ UpdatedRoots = {} => rootValue = call.root
\* the object the factory returned is the result: it has the existing
\* value's properties written into it
MergeWritesGeneric ==
  RecordMerged =>
    \A i \in MergeCalls :
      /\ trace[i].target = MockValue
      /\ \A key \in Keys(trace[i].b) :
           GetProp(trace[i].target, key) = GetProp(trace[i].b, key)
\* the factory's object had a different value for a key of the existing
\* value before the merge
MergeOverwroteGeneric ==
  /\ RecordMerged
  /\ \E i \in MergeCalls :
       \E key \in Keys(trace[i].b) \cap Keys(trace[i].a) :
         GetProp(trace[i].a, key) # GetProp(trace[i].target, key)

(***************************************************************************)
(* The descent of the recursion of mockType.                               *)
(***************************************************************************)
RECURSIVE Descent(_)
\* the types the resolver of a type may call itself with: the type, what its
\* List wrappers wrap, and the members of a union or interface
Descent(type) ==
  {type} \cup
    (IF getNullableType(type).w = "list" THEN Descent(ofType(getNullableType(type)))
     ELSE IF getNullableType(type).name \in AbstractTypes
     THEN {Named(name) : name \in DeclaredTypes(getNullableType(type).name)}
     ELSE {})

RECURSIVE MaxCalls(_)
\* the most invocations of mockType one invocation for the type can make: two
\* per list, one for the member of a union or interface
MaxCalls(type) ==
  IF getNullableType(type).w = "list"
  THEN 1 + (2 * MaxCalls(ofType(getNullableType(type))))
  ELSE IF getNullableType(type).name \in AbstractTypes THEN 2
  ELSE 1

\* an invocation that expanded no MockList
PlainInvocation == Called /\ MockListCalls = {}

\* C30: an invocation of the mock resolver of any field, no MockList being
\* involved, ends with a value or an error after a bounded number of
\* invocations of mockType: it calls itself only for what the List wrappers
\* of the field's type wrap and for the one member picked for a union or
\* interface, and never for the type of a field of an object type.
BoundedDescent ==
  PlainInvocation =>
    /\ \A i \in MockTypeCalls : trace[i].type \in Descent(FieldType(call.id))
    /\ Cardinality(MockTypeCalls) <= MaxCalls(FieldType(call.id))
    /\ \A i \in RandomTypeCalls :
         /\ trace[i + 1].call = "mockType"
         /\ trace[i + 1].type = Named(trace[i].of)
         /\ trace[i + 1].branch \in {"registry", "object"}
    /\ \A i \in MockTypeCalls :
         trace[i].branch = "object" =>
           (i = Len(trace) \/ trace[i + 1].call # "mockType"
              \/ trace[i + 1].fieldName = NoFieldName)

\* a list of lists of an object type was made by default: seven invocations,
\* four of them for the object type, none for the types of its fields
BoundedDescentWitness ==
  /\ PlainInvocation
  /\ call.id = <<"RootQuery", "returnListOfListOfObject">>
  /\ ~ExistingDefined
  /\ Cardinality(MockTypeCalls) = 7
  /\ Cardinality({i \in MockTypeCalls : trace[i].branch = "object"}) = 4
  /\ MockValue.k = "array"
====
